---- MODULE Spec2Model ----
(***************************************************************************)
(* A model of ibroke.py: the IBroke session object, its message handlers   *)
(* (run one at a time on the broker session's reader thread) and its       *)
(* public methods (run on the caller's thread).                            *)
(*                                                                         *)
(* Python's None is the empty sequence and a present value v is <<v>>.     *)
(* Timestamps taken with time.time() are the single value <<"now">>.       *)
(* A contract's symbol is taken to be determined by its contract id.       *)
(* User callbacks are observers: they do not call back into the session.   *)
(***************************************************************************)
EXTENDS Integers, Sequences, FiniteSets, TLC

----------------------------------------------------------------------------
(* Bounds of the model. *)

MaxOrders == 1
MaxOrderId == 2
MaxInst == 1
MaxQty == 2
MaxPrice == 1
MaxExec == 1
MaxHandlers == 1
\* Contract months of the futures offered as candidates.
MaxMonth == 2
\* Trades added to an accumulator between two bars.
MaxTrades == 2
\* The interval of a recurring task, the longest run of its function and
\* the invocations it makes.
Period == 2
MaxDuration == 5
MaxCycles == 10
MaxBars == 2
\* init_sec of the task register() starts.
InitSec == 1

\* The order ids of the ledger's specification, and those of the session's.
LedgerIds == 1..MaxOrders
OrderIds == 1..MaxOrderId
InstIds == 1..MaxInst
ExecIds == 1..MaxExec
Prices == 1..MaxPrice
\* Cumulative fill values a notification may carry: one more than any quantity.
FillValues == 0..(MaxQty + 1)
\* Quantities a caller passes to order(): negative to sell, 0 is refused.
Quantities == (0 - MaxQty)..MaxQty

----------------------------------------------------------------------------
(* Program constants. *)

BENIGN_ERRORS == {202, 2104, 2106, 2137}
DISCONNECT_ERRORS == {504, 502, 1100, 1300, 2110}
RECONNECT_CODES == {1102}
ORDER_RELATED_ERRORS ==
    {103, 104, 105, 106, 107, 109, 110, 111, 113, 114, 115, 116, 117, 118, 119,
     120, 121, 122, 123, 124, 125, 126, 129, 131, 132, 133, 134, 135, 136, 137,
     140, 141, 144, 146, 147, 148, 151, 152, 153, 154, 155, 156, 157, 158, 159,
     160, 161, 163, 164, 166, 167, 168, 201, 203, 303, 311, 312, 313, 314, 315,
     325, 327, 328, 329, 335, 336, 337, 338, 339, 340, 341, 342, 343, 347, 348,
     349, 350, 351, 352, 353, 355, 356, 358, 359, 360, 361, 362, 363, 364, 367,
     368, 369, 370, 371, 372, 373, 374, 375, 376, 377, 378, 379, 380, 382, 383,
     387, 388, 389, 390, 391, 392, 393, 394, 395, 396, 397, 398, 399, 400, 401,
     402, 403, 404, 405, 406, 407, 408, 409, 410, 411, 412, 413, 414, 415, 416,
     417, 418, 419, 422, 423, 424, 425, 426, 427, 428, 429, 433, 434, 435, 436,
     437, 512, 515, 516, 517, 10003, 10005, 10006, 10007, 10008, 10009, 10010,
     10011, 10012, 10013, 10014, 10016, 10017, 10018, 10019, 10020, 10021,
     10022, 10023, 10024, 10025, 10026, 10027, 10147}
TICKER_RELATED_ERRORS ==
    {101, 102, 138, 301, 300, 302, 309, 310, 316, 317, 321, 322, 354, 365, 366,
     385, 386, 420, 510, 511, 519, 520, 524, 525, 529, 530}
CONTRACT_REQUEST_ERRORS == {200}
CRAZY_HIGH_COMMISSION == 1000000
CRAZY_HIGH_PROFIT == 1000000

----------------------------------------------------------------------------
(* Values. *)

None == << >>
Some(v) == <<v>>

Abs(x) == IF x < 0 THEN 0 - x ELSE x

\* math.copysign(x, y) on integers, then int().
CopySign(x, y) == IF y < 0 THEN 0 - Abs(x) ELSE Abs(x)

VARIABLES
    connected,                      \* "None", "False" or "True"
    next_order_id,                  \* self.__next_order_id
    instruments,                    \* self._instruments: the ids cached
    order_handlers,                 \* self._order_handlers: id -> number of handlers
    orders,                         \* self._orders: order id -> Order
    executions,                     \* self._executions: execution id -> order id
    positions,                      \* self._positions: id -> <<shares, cost>>
    contract_details,               \* self._contract_details: list of queues
    reconcile_contract_requests,    \* self._reconcile_contract_requests
    reconcile_open_orders_end,      \* self._reconcile_open_orders_end
    tick_errors,                    \* self._tick_errors: id -> queue
    tick_handlers,                  \* self._tick_handlers: id -> list of handlers
    bar_handlers,                   \* self._bar_handlers: key -> list of handlers
    ticumulators,                   \* self._ticumulators: id -> Ticumulator
    trades,                         \* id -> the trades added since the last bar()
    timer,                          \* the RecurringTask thread
    now,                            \* time.time()
    requested,                      \* contract-details requests the session got
    pc, loc,                        \* the caller thread: where it is, its locals
    ret,                            \* what the caller's last call returned
    dpc, dloc,                      \* the reader thread inside a handler
    calls,                          \* order-handler invocations of the last step
    sent,                           \* commands the last step sent to the session
    alerts,                         \* alerts the last step raised
    reconciled                      \* reconcile() calls that have returned

vars == <<connected, next_order_id, instruments, order_handlers, orders,
          executions, positions, contract_details, reconcile_contract_requests,
          reconcile_open_orders_end, tick_errors, tick_handlers, bar_handlers,
          ticumulators, trades, timer, now, requested, pc, loc, ret, dpc,
          dloc,
          calls, sent, alerts, reconciled>>

callerVars == <<pc, loc, ret, reconciled>>
readerVars == <<dpc, dloc>>
timerVars == <<timer, now>>
marketVars == <<tick_errors, tick_handlers, bar_handlers, ticumulators, trades,
                timerVars>>
resolveVars == <<instruments, positions, contract_details, requested,
                 reconcile_contract_requests, reconcile_open_orders_end,
                 marketVars>>
ledgerVars == <<order_handlers, orders, executions>>

----------------------------------------------------------------------------
(* class Order *)

\* Order.__init__
NewOrder(id_, instrument, price, quantity, filled, open, cancelled) ==
    [id |-> id_, instrument |-> instrument, price |-> price,
     quantity |-> quantity, filled |-> filled, avg_price |-> None,
     open |-> open, cancelled |-> cancelled, profit |-> 0, commission |-> 0,
     open_time |-> None, fill_time |-> None, message |-> None]

\* Order.complete
Complete(order) == order.filled = order.quantity

\* Order._from_ib: qty is computed and not used; the quantity recorded is
\* order.m_totalQuantity.
FromIb(order, order_id, instrument) ==
    LET qty == order.m_totalQuantity * (IF order.m_action = "BUY" THEN 1 ELSE 0 - 1)
    IN  NewOrder(order_id, instrument,
                 IF order.m_lmtPrice = 0 THEN None ELSE Some(order.m_lmtPrice),
                 order.m_totalQuantity, 0, TRUE, FALSE)

\* The IBOrder that order() builds from its arguments.
MakeIBOrder(quantity, limit) ==
    [m_action |-> IF quantity >= 0 THEN "BUY" ELSE "SELL",
     m_totalQuantity |-> Abs(quantity),
     m_lmtPrice |-> limit]

\* self._orders[order_id] = order
PutOrder(ords, order_id, order) ==
    [i \in (DOMAIN ords) \cup {order_id} |-> IF i = order_id THEN order ELSE ords[i]]

\* if order.open_time is None: order.open_time = time.time()
StampOpen(order) ==
    [order EXCEPT !.open_time = IF @ = None THEN Some("now") ELSE @]

\* The number of handlers _call_order_handlers(order) invokes.
CallOrderHandlers(order) == order_handlers[order.instrument]

----------------------------------------------------------------------------
(* class Ticumulator.  A float is NaN or the exact fraction <<n, d>> in     *)
(* lowest terms, d = 0 for infinity: sums and products of the small         *)
(* integers used are exact in Python's floats too, quotients are not        *)
(* rounded here.                                                            *)

NaN == << >>
Inf == <<1, 0>>

\* math.gcd
RECURSIVE Gcd(_, _)
Gcd(a, b) == IF b = 0 THEN a ELSE Gcd(b, a % b)

\* the float n / d, d > 0
Fraction(n, d) ==
    LET g == Gcd(Abs(n), d)
    IN  IF n = 0 THEN <<0, 1>> ELSE <<n \div g, d \div g>>

Float(n) == <<n, 1>>

\* math.isnan, math.isfinite
IsNaN(x) == x = NaN
IsFinite(x) == x # NaN /\ x[2] # 0

\* x + y, x * y, x / y and x < y on floats that are finite or NaN (y is not
\* zero in x / y)
FAdd(x, y) ==
    IF IsNaN(x) \/ IsNaN(y) THEN NaN
    ELSE Fraction(x[1] * y[2] + y[1] * x[2], x[2] * y[2])

FMul(x, y) ==
    IF IsNaN(x) \/ IsNaN(y) THEN NaN
    ELSE Fraction(x[1] * y[1], x[2] * y[2])

FDiv(x, y) ==
    IF IsNaN(x) \/ IsNaN(y) THEN NaN
    ELSE Fraction(x[1] * y[2], x[2] * y[1])

FLess(x, y) ==
    /\ ~IsNaN(x)
    /\ ~IsNaN(y)
    /\ x[1] * y[2] < y[1] * x[2]

\* max(x, y) and min(x, y): the first argument unless the second is
\* greater (less), so a NaN that comes first stays.
PyMax(x, y) == IF FLess(x, y) THEN y ELSE x
PyMin(x, y) == IF FLess(y, x) THEN y ELSE x

\* time.time()
Now == Some("now")

\* Ticumulator.INPUT_FIELDS
INPUT_FIELDS ==
    <<"time", "bid", "bidsize", "ask", "asksize", "last", "lastsize",
      "lasttime", "volume", "open_interest">>

\* Ticumulator.__init__
NewTicumulator ==
    [time |-> NaN, bid |-> NaN, bidsize |-> NaN, ask |-> NaN, asksize |-> NaN,
     last |-> NaN, lastsize |-> NaN, lasttime |-> NaN, volume |-> NaN,
     open_interest |-> NaN,
     open |-> NaN, high |-> NaN, low |-> NaN, close |-> NaN,
     sum_last |-> Float(0), sum_vol |-> Float(0)]

\* Ticumulator.add raises ValueError for this `what` or this `value`.
AddRaises(what, value) ==
    \/ what \notin {INPUT_FIELDS[i] : i \in 2..Len(INPUT_FIELDS)}
    \/ ~IsFinite(value)
    \/ FLess(value, Float(0))

\* Ticumulator.add that sums the prices without their sizes.
AddUnweighted(acc, what, value) ==
    LET timed == [acc EXCEPT !.time = Now]
        set == [timed EXCEPT ![what] = value]
        first == IF IsNaN(set.open)
                 THEN [set EXCEPT !.open = value, !.high = value,
                                  !.low = value, !.close = value]
                 ELSE set
        traded == IF what = "last"
                  THEN [first EXCEPT !.high = PyMax(first.high, value),
                                     !.low = PyMin(first.low, value),
                                     !.close = value]
                  ELSE set
    IN  IF AddRaises(what, value) THEN timed
        ELSE IF what = "lastsize"
        THEN [traded EXCEPT !.sum_last = FAdd(@, traded.last),
                            !.sum_vol = FAdd(@, traded.lastsize)]
        ELSE traded

\* Ticumulator.add: the accumulator after add(what, value), raised or not.
Add(acc, what, value) ==
    LET timed == [acc EXCEPT !.time = Now]
        set == [timed EXCEPT ![what] = value]
        first == IF IsNaN(set.open)
                 THEN [set EXCEPT !.open = value, !.high = value,
                                  !.low = value, !.close = value]
                 ELSE set
        traded == IF what = "last"
                  THEN [first EXCEPT !.high = PyMax(first.high, value),
                                     !.low = PyMin(first.low, value),
                                     !.close = value]
                  ELSE set
    IN  IF AddRaises(what, value) THEN timed
        ELSE IF what = "lastsize"
        THEN [traded EXCEPT
                 !.sum_last = FAdd(@, FMul(traded.last, traded.lastsize)),
                 !.sum_vol = FAdd(@, traded.lastsize)]
        ELSE traded

\* Ticumulator.vwap
Vwap(acc) ==
    IF acc.sum_vol # Float(0) THEN FDiv(acc.sum_last, acc.sum_vol) ELSE Float(0)

\* Ticumulator.peek: the tuple, its items named as in Bar.
Peek(acc) ==
    [time |-> Now, bid |-> acc.bid, bidsize |-> acc.bidsize, ask |-> acc.ask,
     asksize |-> acc.asksize, last |-> acc.last, lastsize |-> acc.lastsize,
     lasttime |-> acc.lasttime, open |-> acc.open, high |-> acc.high,
     low |-> acc.low, close |-> acc.close, vwap |-> Vwap(acc),
     volume |-> acc.volume, open_interest |-> acc.open_interest]

\* Ticumulator.bar that leaves the sums of the bar before in place.
BarKeepingSums(acc) ==
    [acc EXCEPT !.open = acc.close, !.high = acc.last, !.low = acc.last]

\* Ticumulator.bar that leaves the open of the bar before in place.
BarKeepingOpen(acc) ==
    [acc EXCEPT !.high = acc.last, !.low = acc.last,
                !.sum_last = Float(0), !.sum_vol = Float(0)]

\* Ticumulator.bar: the accumulator after bar(); bar() returns Peek(acc).
Bar(acc) ==
    [acc EXCEPT !.open = acc.close, !.high = acc.last, !.low = acc.last,
                !.sum_last = Float(0), !.sum_vol = Float(0)]

----------------------------------------------------------------------------
(* What a step leaves behind for observation. *)

NoMessage == [typeName |-> "none"]

\* A handler ran to its end on the reader thread: the caller's variables are
\* untouched.
Dispatched(ncalls, cmds) ==
    /\ calls' = ncalls
    /\ sent' = cmds
    /\ alerts' = << >>
    /\ UNCHANGED callerVars

\* The same, for a handler that raises an alert.
DispatchedAlert(alert) ==
    /\ calls' = 0
    /\ sent' = << >>
    /\ alerts' = <<alert>>
    /\ UNCHANGED callerVars

\* A step of the caller thread.
Called(cmds) ==
    /\ calls' = 0
    /\ sent' = cmds
    /\ alerts' = << >>
    /\ UNCHANGED readerVars

ReaderIdle == dpc = "idle"

----------------------------------------------------------------------------
(* Order ledger: the handlers of orderStatus, openOrder, execDetails,       *)
(* commissionReport and of order-related errors.                           *)

\* _orderStatus: msg.status in ('ApiCanceled', 'Cancelled')
IsCancelStatus(status) == status \in {"ApiCanceled", "Cancelled"}

\* A fill test that also takes a message repeating the recorded fill.
OrderStatusFillsOrEqual(order, msg) == msg.filled >= Abs(order.filled)

\* _orderStatus: msg.filled > abs(order.filled)
OrderStatusFills(order, msg) == msg.filled > Abs(order.filled)

\* _orderStatus: the order after the message.
OrderStatusOrder(order, msg) ==
    LET o == StampOpen(order)
    IN  IF IsCancelStatus(msg.status)
        THEN [o EXCEPT !.cancelled = TRUE, !.open = FALSE]
        ELSE IF OrderStatusFills(o, msg)
        THEN LET f == [o EXCEPT !.filled = CopySign(msg.filled, o.quantity),
                                !.avg_price = Some(msg.avgFillPrice)]
             IN  [f EXCEPT !.open = IF Complete(f) THEN FALSE ELSE @]
        ELSE o

\* _orderStatus: the handler invocations it makes.
OrderStatusCalls(order, msg) ==
    IF ~IsCancelStatus(msg.status) /\ OrderStatusFills(order, msg)
    THEN CallOrderHandlers(order)
    ELSE 0

OrderStatus(msg) ==
    /\ ReaderIdle
    /\ IF msg.orderId \notin DOMAIN orders
       THEN /\ UNCHANGED orders
            /\ Dispatched(0, << >>)
       ELSE /\ orders' = PutOrder(orders, msg.orderId,
                                  OrderStatusOrder(orders[msg.orderId], msg))
            /\ Dispatched(OrderStatusCalls(orders[msg.orderId], msg), << >>)
    /\ UNCHANGED <<connected, next_order_id, order_handlers, executions,
                   resolveVars, readerVars>>

\* _openOrder: the order after the status and warning text of the message.
OpenOrderOrder(order, msg) ==
    LET o == StampOpen(order)
        s == IF msg.m_status = "Cancelled"
             THEN [o EXCEPT !.cancelled = TRUE, !.open = FALSE]
             ELSE IF msg.m_status = "Filled"
             THEN [o EXCEPT !.open = FALSE]
             ELSE o
    IN  IF msg.m_warningText # None
        THEN [s EXCEPT !.message = msg.m_warningText]
        ELSE s

\* _openOrder.  An order not known is made from the message if its instrument
\* is cached and the message is dropped otherwise; the assertion that a known
\* order is for the message's contract ends the handler when it fails.
OpenOrder(msg) ==
    /\ ReaderIdle
    /\ IF msg.orderId \notin DOMAIN orders
       THEN IF msg.m_conId \notin instruments
            THEN UNCHANGED orders
            ELSE orders' = PutOrder(orders, msg.orderId,
                     OpenOrderOrder(FromIb(msg.order, msg.orderId, msg.m_conId), msg))
       ELSE IF orders[msg.orderId].instrument # msg.m_conId
            THEN UNCHANGED orders
            ELSE orders' = PutOrder(orders, msg.orderId,
                                    OpenOrderOrder(orders[msg.orderId], msg))
    /\ Dispatched(0, << >>)
    /\ UNCHANGED <<connected, next_order_id, order_handlers, executions,
                   resolveVars, readerVars>>

\* A fill test that takes every cumulative quantity other than the recorded one.
ExecFillsAnyChange(order, exec) == exec.m_cumQty # Abs(order.filled)

\* _execDetails: exec.m_cumQty > abs(order.filled)
ExecFills(order, exec) == exec.m_cumQty > Abs(order.filled)

\* _execDetails: the order after the message.
ExecDetailsOrder(order, exec) ==
    LET o == StampOpen(order)
    IN  IF ExecFills(o, exec)
        THEN LET f == [o EXCEPT !.fill_time = Some("now"),
                                !.filled = CopySign(exec.m_cumQty, o.quantity),
                                !.avg_price = Some(exec.m_avgPrice)]
             IN  [f EXCEPT !.open = IF Complete(f) THEN FALSE ELSE @]
        ELSE o

\* _execDetails: no handler is invoked here (they are left to commissionReport).
ExecDetails(msg) ==
    /\ ReaderIdle
    /\ IF msg.m_orderId \notin DOMAIN orders
       THEN UNCHANGED <<orders, executions>>
       ELSE /\ executions' = [e \in (DOMAIN executions) \cup {msg.m_execId} |->
                                 IF e = msg.m_execId THEN msg.m_orderId
                                 ELSE executions[e]]
            /\ orders' = PutOrder(orders, msg.m_orderId,
                                  ExecDetailsOrder(orders[msg.m_orderId], msg))
    /\ Dispatched(0, << >>)
    /\ UNCHANGED <<connected, next_order_id, order_handlers, resolveVars,
                   readerVars>>

\* _commissionReport without the sanity bounds.
CommissionOrderUnchecked(order, report) ==
    [order EXCEPT !.commission = @ + report.m_commission,
                  !.profit = @ + report.m_realizedPNL]

\* _commissionReport: the order after the report.
CommissionOrder(order, report) ==
    LET c == IF 0 <= report.m_commission /\ report.m_commission < CRAZY_HIGH_COMMISSION
             THEN [order EXCEPT !.commission = @ + report.m_commission]
             ELSE order
    IN  IF (0 - CRAZY_HIGH_PROFIT) < report.m_realizedPNL
           /\ report.m_realizedPNL < CRAZY_HIGH_PROFIT
        THEN [c EXCEPT !.profit = @ + report.m_realizedPNL]
        ELSE c

\* self._orders.get(self._executions.get(report.m_execId))
OrderOfExecution(execId) ==
    IF execId \in DOMAIN executions /\ executions[execId] \in DOMAIN orders
    THEN Some(executions[execId])
    ELSE None

CommissionReport(msg) ==
    /\ ReaderIdle
    /\ LET found == OrderOfExecution(msg.m_execId)
       IN  IF found = None
           THEN /\ UNCHANGED orders
                /\ Dispatched(0, << >>)
           ELSE LET order == CommissionOrder(orders[found[1]], msg)
                IN  /\ orders' = PutOrder(orders, found[1], order)
                    /\ Dispatched(CallOrderHandlers(order), << >>)
    /\ UNCHANGED <<connected, next_order_id, order_handlers, executions,
                   resolveVars, readerVars>>

----------------------------------------------------------------------------
(* Queues: an item is a contract-details record, the terminating None, or    *)
(* an exception.                                                           *)

MaxQueue == 2
MaxRequests == 2

EndItem == [kind |-> "None", conId |-> 0, secType |-> "", month |-> 0]
ErrorItem == [kind |-> "error", conId |-> 0, secType |-> "", month |-> 0]
DetailsItem(conId, secType, month) ==
    [kind |-> "details", conId |-> conId, secType |-> secType, month |-> month]

\* queue.put_nowait(item) on the queue of request req_id
PutDetails(queues, req_id, items) ==
    [queues EXCEPT ![req_id + 1] = @ \o items]

----------------------------------------------------------------------------
(* _error *)

\* The branch of _error a code takes, in the order the code tests them.
ErrorClass(code) ==
    IF code \in BENIGN_ERRORS THEN "benign"
    ELSE IF code \in DISCONNECT_ERRORS THEN "disconnect"
    ELSE IF code \in RECONNECT_CODES THEN "reconnect"
    ELSE IF 2100 <= code /\ code < 2200 THEN "warning"
    ELSE IF code \in ORDER_RELATED_ERRORS THEN "order"
    ELSE IF code \in TICKER_RELATED_ERRORS THEN "ticker"
    ELSE IF code \in CONTRACT_REQUEST_ERRORS THEN "contract"
    ELSE "other"

\* str.replace on a text given as the sequence of its pieces
Replace(s, old, new) == [i \in DOMAIN s |-> IF s[i] = old THEN new ELSE s[i]]

\* _error, order-related, that leaves the order open.
ErrorOrderStaysOpen(order, msg) ==
    [order EXCEPT !.cancelled = TRUE,
                  !.message = Some(Replace(msg.errorMsg, "\n", " "))]

\* _error, order-related: the order after the error.
ErrorOrder(order, msg) ==
    [order EXCEPT !.cancelled = TRUE, !.open = FALSE,
                  !.message = Some(Replace(msg.errorMsg, "\n", " "))]

Error(msg) ==
    /\ ReaderIdle
    /\ LET class == ErrorClass(msg.errorCode)
       IN  CASE class = "disconnect" ->
                 /\ connected' = "False"
                 /\ DispatchedAlert("Disconnect")
                 /\ UNCHANGED <<orders, contract_details, tick_errors>>
             [] class = "reconnect" ->
                 /\ connected' = "True"
                 /\ DispatchedAlert("Reconnect")
                 /\ UNCHANGED <<orders, contract_details, tick_errors>>
             [] class = "order" ->
                 /\ IF msg.id \in DOMAIN orders
                    THEN /\ orders' = PutOrder(orders, msg.id,
                                               ErrorOrder(orders[msg.id], msg))
                         /\ Dispatched(CallOrderHandlers(orders[msg.id]), << >>)
                    ELSE /\ UNCHANGED orders
                         /\ Dispatched(0, << >>)
                 /\ UNCHANGED <<connected, contract_details, tick_errors>>
             [] class = "ticker" ->
                 /\ IF msg.id \in DOMAIN tick_errors
                    THEN /\ Len(tick_errors[msg.id]) < MaxQueue
                         /\ tick_errors' = [tick_errors EXCEPT
                                               ![msg.id] = Append(@, ErrorItem)]
                    ELSE UNCHANGED tick_errors
                 /\ Dispatched(0, << >>)
                 /\ UNCHANGED <<connected, orders, contract_details>>
             [] class = "contract" ->
                 /\ IF msg.id >= Len(contract_details)
                    THEN UNCHANGED contract_details
                    ELSE /\ Len(contract_details[msg.id + 1]) + 2 <= MaxQueue
                         /\ contract_details' =
                                PutDetails(contract_details, msg.id,
                                           <<ErrorItem, EndItem>>)
                 /\ Dispatched(0, << >>)
                 /\ UNCHANGED <<connected, orders, tick_errors>>
             [] OTHER ->
                 /\ Dispatched(0, << >>)
                 /\ UNCHANGED <<connected, orders, contract_details, tick_errors>>
    /\ UNCHANGED <<next_order_id, order_handlers, executions, instruments,
                   positions, requested, reconcile_contract_requests,
                   reconcile_open_orders_end, timerVars, tick_handlers, bar_handlers,
                   ticumulators, trades, readerVars>>

----------------------------------------------------------------------------
(* Session handlers. *)

\* _managedAccounts: connected is set before the account list is looked at.
ManagedAccounts(msg) ==
    /\ ReaderIdle
    /\ connected' = "True"
    /\ Dispatched(0, << >>)
    /\ UNCHANGED <<next_order_id, ledgerVars, resolveVars, readerVars>>

\* _connectionClosed
ConnectionClosed(msg) ==
    /\ ReaderIdle
    /\ connected' = "False"
    /\ DispatchedAlert("Connection Closed")
    /\ UNCHANGED <<next_order_id, ledgerVars, resolveVars, readerVars>>

\* _nextValidId: msg.orderId >= self.__next_order_id
NextValidIdAccepted(orderId, current) == orderId >= current

\* _nextValidId up to the comparison.  The counter is also written by order()
\* on the caller's thread, which may run between the comparison and the store.
NextValidIdTest(msg) ==
    /\ ReaderIdle
    /\ connected' = "True"
    /\ IF NextValidIdAccepted(msg.orderId, next_order_id)
       THEN /\ dpc' = "nextValidId"
            /\ dloc' = msg
       ELSE UNCHANGED readerVars
    /\ Dispatched(0, << >>)
    /\ UNCHANGED <<next_order_id, ledgerVars, resolveVars>>

\* _nextValidId: self.__next_order_id = msg.orderId
NextValidIdStore ==
    /\ dpc = "nextValidId"
    /\ next_order_id' = dloc.orderId
    /\ dpc' = "idle"
    /\ dloc' = NoMessage
    /\ Dispatched(0, << >>)
    /\ UNCHANGED <<connected, ledgerVars, resolveVars>>

\* _openOrderEnd
OpenOrderEnd(msg) ==
    /\ ReaderIdle
    /\ reconcile_open_orders_end' = TRUE
    /\ Dispatched(0, << >>)
    /\ UNCHANGED <<connected, next_order_id, ledgerVars, instruments, positions,
                   contract_details, requested, reconcile_contract_requests, marketVars,
                   readerVars>>

\* The items of request req_id's queue not yet handled: those on the queue
\* and those _handle_contract_details has read from it so far.
DetailsBacklog(req_id) ==
    Len(contract_details[req_id + 1])
        + (IF pc = "details" /\ loc.req_id = req_id THEN Len(loc.details) ELSE 0)

\* The items of the reconcile queue not yet handled: those on the queue and
\* those reconcile() has read from it so far.
ReconcileBacklog ==
    Len(reconcile_contract_requests)
        + (IF pc = "positions" THEN Len(loc.req_ids) ELSE 0)

\* _contractDetails
ContractDetails(msg) ==
    /\ ReaderIdle
    /\ IF msg.reqId >= Len(contract_details)
       THEN UNCHANGED contract_details
       ELSE /\ DetailsBacklog(msg.reqId) < MaxQueue
            /\ contract_details' =
                   PutDetails(contract_details, msg.reqId, <<msg.contractDetails>>)
    /\ Dispatched(0, << >>)
    /\ UNCHANGED <<connected, next_order_id, ledgerVars, instruments, positions,
                   reconcile_contract_requests, reconcile_open_orders_end,
                   marketVars, requested, readerVars>>

\* _contractDetailsEnd
ContractDetailsEnd(msg) ==
    /\ ReaderIdle
    /\ IF msg.reqId >= Len(contract_details)
       THEN UNCHANGED contract_details
       ELSE /\ DetailsBacklog(msg.reqId) < MaxQueue + 1
            /\ contract_details' =
                   PutDetails(contract_details, msg.reqId, <<EndItem>>)
    /\ Dispatched(0, << >>)
    /\ UNCHANGED <<connected, next_order_id, ledgerVars, instruments, positions,
                   reconcile_contract_requests, reconcile_open_orders_end,
                   marketVars, requested, readerVars>>

\* self._positions[inst_id] = value
PutPosition(pos, inst_id, value) ==
    [i \in (DOMAIN pos) \cup {inst_id} |-> IF i = inst_id THEN value ELSE pos[i]]

\* _position: float(msg.contract.m_multiplier), 1.0 when it does not parse.
Multiplier(m_multiplier) == IF m_multiplier = None THEN 1 ELSE m_multiplier[1]

\* _position: (msg.pos, msg.avgCost / multiplier)
PositionValue(msg) == <<msg.pos, Some(msg.avgCost \div Multiplier(msg.m_multiplier))>>

\* _position for an instrument in the cache: the position is overwritten.
\* For one not in the cache the handler first calls _request_contract_details,
\* which reads the length of the slot list here and extends it in the next step.
Position(msg) ==
    /\ ReaderIdle
    /\ IF msg.m_conId \in instruments
       THEN /\ positions' = PutPosition(positions, msg.m_conId, PositionValue(msg))
            /\ UNCHANGED readerVars
       ELSE /\ Len(contract_details) < MaxRequests
            /\ ReconcileBacklog < MaxQueue
            /\ dpc' = "position"
            /\ dloc' = [msg |-> msg, req_id |-> Len(contract_details)]
            /\ UNCHANGED positions
    /\ Dispatched(0, << >>)
    /\ UNCHANGED <<connected, next_order_id, ledgerVars, instruments,
                   contract_details, requested, reconcile_contract_requests,
                   reconcile_open_orders_end, marketVars>>

\* _position that resolves the contract inline: it makes the request and
\* waits in the handler for the answer to be in the slot.
PositionResolvesInline ==
    /\ dpc = "position"
    /\ dloc.req_id < Len(contract_details)
    /\ contract_details[dloc.req_id + 1] # << >>
    /\ contract_details' = Append(contract_details, << >>)
    /\ reconcile_contract_requests' =
           Append(reconcile_contract_requests, Some(dloc.req_id))
    /\ positions' = PutPosition(positions, dloc.msg.m_conId, PositionValue(dloc.msg))
    /\ dpc' = "idle"
    /\ dloc' = NoMessage
    /\ requested' = requested \cup {<<dloc.req_id, dloc.msg.m_conId>>}
    /\ Dispatched(0,
                  <<[cmd |-> "reqContractDetails", id |-> dloc.req_id]>>)
    /\ UNCHANGED <<connected, next_order_id, ledgerVars, instruments,
                   reconcile_open_orders_end, marketVars>>

\* _position, from the append of _request_contract_details to its end.
PositionRequest ==
    /\ dpc = "position"
    /\ contract_details' = Append(contract_details, << >>)
    /\ reconcile_contract_requests' =
           Append(reconcile_contract_requests, Some(dloc.req_id))
    /\ positions' = PutPosition(positions, dloc.msg.m_conId, PositionValue(dloc.msg))
    /\ dpc' = "idle"
    /\ dloc' = NoMessage
    /\ requested' = requested \cup {<<dloc.req_id, dloc.msg.m_conId>>}
    /\ Dispatched(0,
                  <<[cmd |-> "reqContractDetails", id |-> dloc.req_id]>>)
    /\ UNCHANGED <<connected, next_order_id, ledgerVars, instruments,
                   reconcile_open_orders_end, marketVars>>

\* _positionEnd
PositionEnd(msg) ==
    /\ ReaderIdle
    /\ ReconcileBacklog < MaxQueue
    /\ reconcile_contract_requests' = Append(reconcile_contract_requests, None)
    /\ Dispatched(0, << >>)
    /\ UNCHANGED <<connected, next_order_id, ledgerVars, instruments, positions,
                   contract_details, requested, reconcile_open_orders_end, marketVars,
                   readerVars>>

----------------------------------------------------------------------------
(* Market data: the handlers of tickPrice, tickSize and tickString, and the *)
(* bars made for the bar handlers.                                          *)

\* d[key] = value on a dict
Put(d, key, value) ==
    [k \in (DOMAIN d) \cup {key} |-> IF k = key THEN value ELSE d[k]]

\* The text of a field of an RTVOLUME string: of a float, or empty.
Text(x) == [text |-> "float", float |-> x]
Blank == [text |-> "", float |-> NaN]

\* _call_tick_handlers: the error queues after the handlers of ticker_id
\* were called.  unblock_register, the handler register() installs while it
\* waits, puts None in the ticker's queue; an on_bar handler is the user's.
CallTickHandlers(ticker_id) ==
    IF ticker_id \notin instruments \/ ticker_id \notin DOMAIN tick_handlers
    THEN tick_errors
    ELSE LET handlers == tick_handlers[ticker_id]
             n == Cardinality({i \in DOMAIN handlers :
                                   handlers[i] = "unblock_register"})
         IN  [tick_errors EXCEPT ![ticker_id] = @ \o [i \in 1..n |-> EndItem]]

\* The ticker's queue has room for what a tick may put in it.
TickRoom(ticker_id) ==
    ticker_id \in DOMAIN tick_errors
        => Len(CallTickHandlers(ticker_id)[ticker_id]) <= MaxQueue

\* acc.add(what, value) for each <<what, value>> of adds in turn, up to and
\* including the first that raises.
RECURSIVE AddAll(_, _)
AddAll(acc, adds) ==
    IF adds = << >> THEN acc
    ELSE IF AddRaises(Head(adds)[1], Head(adds)[2])
    THEN Add(acc, Head(adds)[1], Head(adds)[2])
    ELSE AddAll(Add(acc, Head(adds)[1], Head(adds)[2]), Tail(adds))

AnyRaises(adds) == \E i \in DOMAIN adds : AddRaises(adds[i][1], adds[i][2])

\* A tick handler that does adds to the ticker's accumulator and then calls
\* the tick handlers, unless an add raised.
TickAdds(ticker_id, adds) ==
    /\ ticumulators' = [ticumulators EXCEPT ![ticker_id] = AddAll(@, adds)]
    /\ IF AnyRaises(adds)
       THEN UNCHANGED tick_errors
       ELSE tick_errors' = CallTickHandlers(ticker_id)

\* _tickPrice
TickPrice(msg) ==
    /\ ReaderIdle
    /\ TickRoom(msg.tickerId)
    /\ IF msg.tickerId \notin DOMAIN ticumulators
       THEN UNCHANGED <<ticumulators, tick_errors>>
       ELSE IF msg.field = "BID" /\ ~IsNaN(msg.price) /\ ~FLess(msg.price, Float(0))
       THEN TickAdds(msg.tickerId, <<<<"bid", msg.price>>>>)
       ELSE IF msg.field = "ASK" /\ ~IsNaN(msg.price) /\ ~FLess(msg.price, Float(0))
       THEN TickAdds(msg.tickerId, <<<<"ask", msg.price>>>>)
       ELSE TickAdds(msg.tickerId, << >>)
    /\ Dispatched(0, << >>)
    /\ UNCHANGED <<connected, next_order_id, ledgerVars, instruments, positions,
                   contract_details, requested, reconcile_contract_requests,
                   reconcile_open_orders_end, timerVars, tick_handlers, bar_handlers,
                   trades, readerVars>>

\* _tickSize
TickSize(msg) ==
    /\ ReaderIdle
    /\ TickRoom(msg.tickerId)
    /\ IF msg.tickerId \notin DOMAIN ticumulators
       THEN UNCHANGED <<ticumulators, tick_errors>>
       ELSE IF msg.field = "BID_SIZE"
       THEN TickAdds(msg.tickerId, <<<<"bidsize", msg.size>>>>)
       ELSE IF msg.field = "ASK_SIZE"
       THEN TickAdds(msg.tickerId, <<<<"asksize", msg.size>>>>)
       ELSE IF msg.field = "OPEN_INTEREST"
       THEN TickAdds(msg.tickerId, <<<<"open_interest", msg.size>>>>)
       ELSE TickAdds(msg.tickerId, << >>)
    /\ Dispatched(0, << >>)
    /\ UNCHANGED <<connected, next_order_id, ledgerVars, instruments, positions,
                   contract_details, requested, reconcile_contract_requests,
                   reconcile_open_orders_end, timerVars, tick_handlers, bar_handlers,
                   trades, readerVars>>

\* _tickString, RT_VOLUME with a price: the adds made for the string's
\* fields price; size; time in ms; volume; vwap.
VolumeAdds(value) ==
    <<<<"last", value[1].float>>, <<"lastsize", value[2].float>>,
      <<"lasttime", FDiv(value[3].float, Float(1000))>>,
      <<"volume", value[4].float>>>>

\* _tickString: map(float, vals[:5]) raises ValueError.
ParseRaises(value) == \E i \in 1..5 : value[i].text # "float"

\* _tickString
TickString(msg) ==
    /\ ReaderIdle
    /\ TickRoom(msg.tickerId)
    /\ IF msg.tickerId \notin DOMAIN ticumulators
       THEN UNCHANGED <<ticumulators, tick_errors, trades>>
       ELSE IF msg.tickType = "LAST_TIMESTAMP"
       THEN /\ TickAdds(msg.tickerId, << >>)
            /\ UNCHANGED trades
       ELSE IF msg.tickType # "RT_VOLUME"
       THEN UNCHANGED <<ticumulators, tick_errors, trades>>
       ELSE IF msg.value[1].text = ""
       THEN /\ TickAdds(msg.tickerId, << >>)
            /\ UNCHANGED trades
       ELSE IF ParseRaises(msg.value)
       THEN UNCHANGED <<ticumulators, tick_errors, trades>>
       ELSE /\ TickAdds(msg.tickerId, VolumeAdds(msg.value))
            /\ IF AnyRaises(SubSeq(VolumeAdds(msg.value), 1, 2))
               THEN UNCHANGED trades
               ELSE /\ Len(trades[msg.tickerId]) < MaxTrades
                    /\ trades' = [trades EXCEPT ![msg.tickerId] =
                                     Append(@, <<msg.value[1].float,
                                                 msg.value[2].float>>)]
    /\ Dispatched(0, << >>)
    /\ UNCHANGED <<connected, next_order_id, ledgerVars, instruments, positions,
                   contract_details, requested, reconcile_contract_requests,
                   reconcile_open_orders_end, timerVars, tick_handlers, bar_handlers,
                   readerVars>>

\* _call_bar_handlers, called by the RecurringTask register() started for
\* the key: the bar is made and handed to the key's handlers.
CallBarHandlers(bar_type, bar_size, ticker_id) ==
    /\ <<bar_type, bar_size, ticker_id>> \in DOMAIN bar_handlers
    /\ IF ticker_id \notin DOMAIN ticumulators \/ ticker_id \notin instruments
       THEN UNCHANGED <<ticumulators, trades>>
       ELSE /\ ticumulators' = [ticumulators EXCEPT ![ticker_id] = Bar(@)]
            /\ trades' = [trades EXCEPT ![ticker_id] = << >>]
    /\ calls' = 0
    /\ sent' = << >>
    /\ alerts' = << >>
    /\ UNCHANGED <<connected, next_order_id, ledgerVars, instruments, positions,
                   contract_details, requested, reconcile_contract_requests,
                   reconcile_open_orders_end, timerVars, tick_errors, tick_handlers,
                   bar_handlers, callerVars, readerVars>>

\* acc.add(what, value) called on the accumulator of ticker_id by its owner;
\* a size added is a trade at the last price.
TicumulatorAdd(ticker_id, what, value) ==
    /\ pc = "idle"
    /\ ticker_id \in DOMAIN ticumulators
    /\ ticumulators' = [ticumulators EXCEPT ![ticker_id] = Add(@, what, value)]
    /\ IF what = "lastsize" /\ ~AddRaises(what, value)
       THEN /\ Len(trades[ticker_id]) < MaxTrades
            /\ trades' = [trades EXCEPT ![ticker_id] =
                             Append(@, <<ticumulators[ticker_id].last, value>>)]
       ELSE UNCHANGED trades
    /\ ret' = IF AddRaises(what, value) THEN <<"add", "ValueError">> ELSE <<"add">>
    /\ Called(<< >>)
    /\ UNCHANGED <<connected, next_order_id, ledgerVars, instruments, positions,
                   contract_details, requested, reconcile_contract_requests,
                   reconcile_open_orders_end, timerVars, tick_errors, tick_handlers,
                   bar_handlers, pc, loc, reconciled>>

\* acc.bar() called by the accumulator's owner; what is returned is kept
\* with the accumulator it is of.
TicumulatorBar(ticker_id) ==
    /\ pc = "idle"
    /\ ticker_id \in DOMAIN ticumulators
    /\ ticumulators' = [ticumulators EXCEPT ![ticker_id] = Bar(@)]
    /\ trades' = [trades EXCEPT ![ticker_id] = << >>]
    /\ ret' = <<"bar", Peek(ticumulators[ticker_id]), ticker_id>>
    /\ Called(<< >>)
    /\ UNCHANGED <<connected, next_order_id, ledgerVars, instruments, positions,
                   contract_details, requested, reconcile_contract_requests,
                   reconcile_open_orders_end, timerVars, tick_errors, tick_handlers,
                   bar_handlers, pc, loc, reconciled>>

\* acc.peek() called by the accumulator's owner
TicumulatorPeek(ticker_id) ==
    /\ pc = "idle"
    /\ ticker_id \in DOMAIN ticumulators
    /\ ret' = <<"peek", Peek(ticumulators[ticker_id]), ticker_id>>
    /\ Called(<< >>)
    /\ UNCHANGED <<connected, next_order_id, ledgerVars, instruments, positions,
                   contract_details, requested, reconcile_contract_requests,
                   reconcile_open_orders_end, marketVars, pc, loc, reconciled>>

----------------------------------------------------------------------------
(* Ticumulator.bar() statement by statement, as the thread of a bar timer
   runs it from _call_bar_handlers while the reader thread adds ticks to the
   same accumulator: no lock is taken by either.  Here `timer` is that
   thread inside bar(): where it is, the accumulator it is in, the tuple
   peek() returned and the sums its vwap was computed from, and `bars`, the
   bars handed to the handlers so far. *)

\* The thread of the bar timer between two calls of _call_bar_handlers.
NoBar ==
    [pc |-> "idle", ticker_id |-> 0, bar |-> << >>, sum_last |-> Float(0),
     sum_vol |-> Float(0), bars |-> << >>]

\* A step of the timer's thread inside bar().
BarStepped ==
    /\ calls' = 0
    /\ sent' = << >>
    /\ alerts' = << >>
    /\ UNCHANGED <<connected, next_order_id, ledgerVars, instruments, positions,
                   contract_details, requested, reconcile_contract_requests,
                   reconcile_open_orders_end, tick_errors, tick_handlers,
                   bar_handlers, trades, now, callerVars, readerVars>>

\* _call_bar_handlers up to bar = self.peek() in Ticumulator.bar
BarPeek(bar_type, bar_size, ticker_id) ==
    /\ timer.pc = "idle"
    /\ Len(timer.bars) < MaxBars
    /\ <<bar_type, bar_size, ticker_id>> \in DOMAIN bar_handlers
    /\ ticker_id \in DOMAIN ticumulators
    /\ ticker_id \in instruments
    /\ timer' = [timer EXCEPT
                     !.pc = "open",
                     !.ticker_id = ticker_id,
                     !.bar = <<Peek(ticumulators[ticker_id])>>,
                     !.sum_last = ticumulators[ticker_id].sum_last,
                     !.sum_vol = ticumulators[ticker_id].sum_vol]
    /\ UNCHANGED ticumulators
    /\ BarStepped

\* self.open = self.close; self.high = self.last; self.low = self.last
BarResetPrices ==
    /\ timer.pc = "open"
    /\ LET acc == ticumulators[timer.ticker_id]
       IN  ticumulators' = [ticumulators EXCEPT ![timer.ticker_id] =
                               [acc EXCEPT !.open = acc.close,
                                           !.high = acc.last,
                                           !.low = acc.last]]
    /\ timer' = [timer EXCEPT !.pc = "sum_last"]
    /\ BarStepped

\* self.sum_last = self.sum_vol = 0.0: the store to sum_last
BarResetSumLast ==
    /\ timer.pc = "sum_last"
    /\ ticumulators' = [ticumulators EXCEPT ![timer.ticker_id].sum_last = Float(0)]
    /\ timer' = [timer EXCEPT !.pc = "sum_vol"]
    /\ BarStepped

\* self.sum_last = self.sum_vol = 0.0: the store to sum_vol; return bar, and
\* the handlers are called with it.
BarResetSumVol ==
    /\ timer.pc = "sum_vol"
    /\ ticumulators' = [ticumulators EXCEPT ![timer.ticker_id].sum_vol = Float(0)]
    /\ timer' = [timer EXCEPT
                     !.pc = "idle",
                     !.bars = Append(@, [ticker_id |-> timer.ticker_id,
                                         vwap |-> timer.bar[1].vwap,
                                         sum_last |-> timer.sum_last,
                                         sum_vol |-> timer.sum_vol])]
    /\ BarStepped

----------------------------------------------------------------------------
(* class RecurringTask: a thread that calls a function at an interval.  The
   clock advances while the function runs and while the thread sleeps.  The
   fields calls, t0, last, slow, burst and after_stop record the history of
   the task: the invocations made, the first scheduled time, the duration of
   the last invocation, whether an invocation took a period or longer, the
   cycles just completed without a sleep, and the invocations begun after
   stop(). *)

\* No RecurringTask has been constructed.
NoTask ==
    [pc |-> "none", running |-> FALSE, functime |-> None, start |-> 0,
     calls |-> 0, t0 |-> 0, last |-> 0, slow |-> FALSE, burst |-> 0,
     after_stop |-> 0]

\* A step of the task's thread, or of the owner of the task.
TimerStepped ==
    /\ calls' = 0
    /\ sent' = << >>
    /\ alerts' = << >>
    /\ UNCHANGED <<connected, next_order_id, ledgerVars, instruments, positions,
                   contract_details, requested, reconcile_contract_requests,
                   reconcile_open_orders_end, tick_errors, tick_handlers,
                   bar_handlers, ticumulators, trades, callerVars, readerVars>>

\* RecurringTask.__init__: the fields, and the thread is started.
RecurringTaskInit ==
    /\ timer.pc = "none"
    /\ timer' = [timer EXCEPT !.pc = "run", !.running = TRUE,
                              !.functime = None]
    /\ UNCHANGED now
    /\ TimerStepped

\* run(), before the loop: the initial sleep and the first scheduled time.
TaskRun ==
    /\ timer.pc = "run"
    /\ now' = now + InitSec
    /\ timer' = [timer EXCEPT !.pc = "test", !.functime = Some(now'),
                              !.t0 = now']
    /\ TimerStepped

\* A loop test that does not read the flag.
TaskTestIgnoresStop ==
    /\ timer.pc = "test"
    /\ timer.calls < MaxCycles
    /\ timer' = [timer EXCEPT !.pc = "func", !.start = now]
    /\ UNCHANGED now
    /\ TimerStepped

\* while self._running: start = time.time()
TaskTest ==
    /\ timer.pc = "test"
    /\ timer.running => timer.calls < MaxCycles
    /\ timer' = IF timer.running
                THEN [timer EXCEPT !.pc = "func", !.start = now]
                ELSE [timer EXCEPT !.pc = "done"]
    /\ UNCHANGED now
    /\ TimerStepped

\* self._func() running for `duration`, then the scheduled time advances by
\* the interval.
TaskFunc(duration) ==
    /\ timer.pc = "func"
    /\ now' = now + duration
    /\ timer' = [timer EXCEPT
                     !.pc = "sleep",
                     !.functime = Some(timer.functime[1] + Period),
                     !.calls = @ + 1,
                     !.last = duration,
                     !.slow = @ \/ duration >= Period,
                     !.after_stop = IF timer.running THEN @ ELSE @ + 1]
    /\ TimerStepped

\* A sleep until the scheduled time, measured from the clock as it is now.
TaskSleepFromNow ==
    /\ timer.pc = "sleep"
    /\ LET remaining == timer.functime[1] - now
       IN  /\ now' = IF remaining > 0 THEN now + remaining ELSE now
           /\ timer' = [timer EXCEPT
                            !.pc = "test",
                            !.burst = IF remaining > 0 THEN 0 ELSE @ + 1]
    /\ TimerStepped

\* if self._functime - start > 0: time.sleep(self._functime - start)
TaskSleep ==
    /\ timer.pc = "sleep"
    /\ LET remaining == timer.functime[1] - timer.start
       IN  /\ now' = IF remaining > 0 THEN now + remaining ELSE now
           /\ timer' = [timer EXCEPT
                            !.pc = "test",
                            !.burst = IF remaining > 0 THEN 0 ELSE @ + 1]
    /\ TimerStepped

\* stop(), called by another thread at any point of the loop.
TaskStop ==
    /\ timer.pc \notin {"none", "done"}
    /\ timer.running
    /\ timer' = [timer EXCEPT !.running = FALSE]
    /\ UNCHANGED now
    /\ TimerStepped

----------------------------------------------------------------------------
(* The caller's thread: __init__, get_instrument, register, order, cancel,  *)
(* reconcile, disconnect.                                                  *)

\* The fields as __init__ sets them, with the connection requested and the
\* constructor polling self.connected.
Init ==
    /\ connected = "None"
    /\ next_order_id = 0
    /\ instruments = {}
    /\ order_handlers = [i \in InstIds |-> 0]
    /\ orders = << >>
    /\ executions = << >>
    /\ positions = << >>
    /\ contract_details = << >>
    /\ reconcile_contract_requests = << >>
    /\ reconcile_open_orders_end = FALSE
    /\ tick_errors = << >>
    /\ tick_handlers = << >>
    /\ bar_handlers = << >>
    /\ ticumulators = << >>
    /\ trades = << >>
    /\ timer = NoTask
    /\ now = 0
    /\ requested = {}
    /\ pc = "init"
    /\ loc = << >>
    /\ ret = <<"none">>
    /\ dpc = "idle"
    /\ dloc = NoMessage
    /\ calls = 0
    /\ sent = << >>
    /\ alerts = << >>
    /\ reconciled = FALSE

Command(name, id) == [cmd |-> name, id |-> id]

\* __init__: the connection came up; the account summary is requested and
\* reconcile() is called next.
InitConnected ==
    /\ pc = "init"
    /\ connected = "True"
    /\ pc' = "construct"
    /\ Called(<<Command("reqAccountSummary", 0)>>)
    /\ UNCHANGED <<connected, next_order_id, ledgerVars, resolveVars, loc, ret,
                   reconciled>>

\* __init__: self.connected is False, or it is still None at the timeout:
\* RuntimeError, and no session object is returned.
InitFail ==
    /\ pc = "init"
    /\ connected # "True"
    /\ pc' = "failed"
    /\ ret' = <<"__init__", "RuntimeError">>
    /\ Called(<< >>)
    /\ UNCHANGED <<connected, next_order_id, ledgerVars, resolveVars, loc,
                   reconciled>>

\* _request_contract_details: req_id = len(self._contract_details).  The list
\* is also extended by _position on the reader thread.
GetInstrumentBegin(contract) ==
    /\ pc = "idle"
    /\ Len(contract_details) < MaxRequests
    /\ pc' = "request"
    /\ loc' = [req_id |-> Len(contract_details), contract |-> contract]
    /\ Called(<< >>)
    /\ UNCHANGED <<connected, next_order_id, ledgerVars, resolveVars, ret,
                   reconciled>>

\* _request_contract_details: the append and the request; get_instrument then
\* waits in _handle_contract_details.
GetInstrumentRequest ==
    /\ pc = "request"
    /\ contract_details' = Append(contract_details, << >>)
    /\ pc' = "details"
    /\ loc' = [req_id |-> loc.req_id, details |-> << >>, todo |-> << >>,
               from |-> "get_instrument"]
    /\ requested' = requested \cup {<<loc.req_id, loc.contract>>}
    /\ Called(<<Command("reqContractDetails", loc.req_id)>>)
    /\ UNCHANGED <<connected, next_order_id, ledgerVars, instruments, positions,
                   reconcile_contract_requests, reconcile_open_orders_end,
                   marketVars, ret, reconciled>>

\* choose_best_contract with max() for min(): the farthest contract month.
ChooseFarthestContract(details) ==
    IF Len(details) = 0 THEN 0
    ELSE IF Len(details) = 1 THEN 1
    ELSE IF {details[i].secType : i \in 1..Len(details)} = {"FUT"}
    THEN CHOOSE i \in 1..Len(details) :
             \A j \in 1..Len(details) :
                 /\ details[i].month >= details[j].month
                 /\ details[j].month = details[i].month => i <= j
    ELSE 0

\* choose_best_contract, for details that are all contract details: the index
\* of the best, 0 when there is none.  min() keeps the first of equal months.
ChooseBestContract(details) ==
    IF Len(details) = 0 THEN 0
    ELSE IF Len(details) = 1 THEN 1
    ELSE IF {details[i].secType : i \in 1..Len(details)} = {"FUT"}
    THEN CHOOSE i \in 1..Len(details) :
             \A j \in 1..Len(details) :
                 /\ details[i].month <= details[j].month
                 /\ details[j].month = details[i].month => i <= j
    ELSE 0

\* _handle_contract_details after the queue was read: the contract id of the
\* Instrument it makes, 0 when it raises.  An exception among the details
\* after the first has no m_summary, and neither has a best of None.
HandleContractDetails(details) ==
    IF details = << >> THEN 0
    ELSE IF details[1].kind = "error" THEN 0
    ELSE IF \E i \in 1..Len(details) : details[i].kind = "error" THEN 0
    ELSE IF ChooseBestContract(details) = 0 THEN 0
    ELSE details[ChooseBestContract(details)].conId

\* _handle_contract_details after the queue was read: the exception it
\* raises.  Only the first item is tested for being an exception; one further
\* on is passed to choose_best_contract, which reads its m_summary.
DetailsRaises(details) ==
    IF details = << >> THEN "ValueError"
    ELSE IF details[1].kind = "error" THEN "captured"
    ELSE IF \E i \in 1..Len(details) : details[i].kind = "error"
    THEN "AttributeError"
    ELSE IF ChooseBestContract(details) = 0 THEN "AttributeError"
    ELSE "none"

\* self._positions[inst.id] = (0, None)
ResetPosition(pos, inst_id) == PutPosition(pos, inst_id, <<0, None>>)

\* self._positions.setdefault(inst.id, (0, None))
SetDefaultPosition(pos, inst_id) ==
    IF inst_id \in DOMAIN pos THEN pos ELSE PutPosition(pos, inst_id, <<0, None>>)

\* reconcile(), from the open-orders request on.
ReconcileOrders ==
    /\ reconcile_open_orders_end' = FALSE
    /\ pc' = "open_orders"
    /\ loc' = << >>

\* _handle_contract_details ends, with `details` read from the queue: for
\* get_instrument the call returns or raises; reconcile() logs a failure and
\* goes on with the next request id, or asks for the open orders.
DetailsDone(details, queues) ==
    LET inst_id == HandleContractDetails(details)
    IN  /\ contract_details' = queues
        /\ IF inst_id = 0
           THEN UNCHANGED <<instruments, positions>>
           ELSE /\ instruments' = instruments \cup {inst_id}
                /\ positions' = SetDefaultPosition(positions, inst_id)
        /\ IF loc.from = "get_instrument"
           THEN /\ pc' = "idle"
                /\ loc' = << >>
                /\ ret' = <<"get_instrument", inst_id>>
                /\ Called(<< >>)
                /\ UNCHANGED reconcile_open_orders_end
           ELSE IF loc.todo # << >>
           THEN /\ pc' = "details"
                /\ loc' = [req_id |-> Head(loc.todo), details |-> << >>,
                           todo |-> Tail(loc.todo), from |-> "reconcile"]
                /\ Called(<< >>)
                /\ UNCHANGED <<ret, reconcile_open_orders_end>>
           ELSE /\ ReconcileOrders
                /\ Called(<<Command("reqAllOpenOrders", 0)>>)
                /\ UNCHANGED ret

\* _handle_contract_details without the takewhile: the None is tossed and the
\* reading goes on until a get() times out.
DetailsGetPastEnd ==
    /\ pc = "details"
    /\ contract_details[loc.req_id + 1] # << >>
    /\ LET item == Head(contract_details[loc.req_id + 1])
       IN  /\ contract_details' = [contract_details EXCEPT
                                      ![loc.req_id + 1] = Tail(@)]
           /\ loc' = [loc EXCEPT !.details =
                         IF item = EndItem THEN @ ELSE Append(@, item)]
    /\ Called(<< >>)
    /\ UNCHANGED <<pc, ret, instruments, positions, reconcile_open_orders_end>>
    /\ UNCHANGED <<connected, next_order_id, ledgerVars,
                   reconcile_contract_requests, marketVars, requested,
                   reconciled>>

\* _handle_contract_details: one get() from the request's queue returns an
\* item; None ends the reading.
DetailsGet ==
    /\ pc = "details"
    /\ contract_details[loc.req_id + 1] # << >>
    /\ LET item == Head(contract_details[loc.req_id + 1])
           rest == [contract_details EXCEPT ![loc.req_id + 1] = Tail(@)]
       IN  IF item = EndItem
           THEN DetailsDone(loc.details, rest)
           ELSE /\ contract_details' = rest
                /\ loc' = [loc EXCEPT !.details = Append(@, item)]
                /\ Called(<< >>)
                /\ UNCHANGED <<pc, ret, instruments, positions,
                               reconcile_open_orders_end>>
    /\ UNCHANGED <<connected, next_order_id, ledgerVars,
                   reconcile_contract_requests, marketVars, requested,
                   reconciled>>

\* A get() without a timeout on the empty queue: the caller stays blocked.
DetailsGetBlocks ==
    /\ pc = "details"
    /\ contract_details[loc.req_id + 1] = << >>
    /\ UNCHANGED vars

\* _handle_contract_details: get() times out on the empty queue.
DetailsTimeout ==
    /\ pc = "details"
    /\ contract_details[loc.req_id + 1] = << >>
    /\ DetailsDone(loc.details, contract_details)
    /\ UNCHANGED <<connected, next_order_id, ledgerVars,
                   reconcile_contract_requests, marketVars, requested,
                   reconciled>>

\* register(instrument, on_order=f) with an Instrument and no bar handler.
RegisterOnOrder(instrument) ==
    /\ pc = "idle"
    /\ instrument \in instruments
    /\ order_handlers[instrument] < MaxHandlers
    /\ order_handlers' = [order_handlers EXCEPT ![instrument] = @ + 1]
    /\ ret' = <<"register">>
    /\ Called(<< >>)
    /\ UNCHANGED <<connected, next_order_id, orders, executions, resolveVars,
                   pc, loc, reconciled>>

\* register(instrument, on_bar=f, ...) on a ticker with handlers, or after
\* the wait on a new ticker: the handler is installed and the call returns.
\* A 'time' handler gets its RecurringTask.  The test for bars of more than
\* one instrument reads inst.id of the ids in the keys of _bar_handlers, so
\* it raises AttributeError once there is a key.
RegisterInstall(handlers, instrument, bar_type, bar_size) ==
    /\ IF bar_type = "tick"
       THEN /\ tick_handlers' = Put(tick_handlers, instrument,
                                    Append(handlers, "on_bar"))
            /\ ret' = <<"register">>
            /\ UNCHANGED bar_handlers
       ELSE IF DOMAIN bar_handlers # {}
       THEN /\ tick_handlers' = Put(tick_handlers, instrument, handlers)
            /\ ret' = <<"register", "AttributeError">>
            /\ UNCHANGED bar_handlers
       ELSE /\ tick_handlers' = Put(tick_handlers, instrument, handlers)
            /\ bar_handlers' = Put(bar_handlers,
                                   <<bar_type, bar_size, instrument>>,
                                   <<"on_bar">>)
            /\ ret' = <<"register">>
    /\ pc' = "idle"
    /\ loc' = << >>

\* register() with on_bar: a ticker without tick handlers gets its error
\* queue, the temporary handler and a new Ticumulator, market data is
\* requested, and register() waits on the queue.
RegisterOnBar(instrument, bar_type, bar_size) ==
    /\ pc = "idle"
    /\ instrument \in instruments
    /\ (bar_type = "tick" /\ instrument \in DOMAIN tick_handlers)
           => Len(tick_handlers[instrument]) < MaxHandlers
    /\ IF instrument \notin DOMAIN tick_handlers \/ tick_handlers[instrument] = << >>
       THEN /\ tick_errors' = Put(tick_errors, instrument, << >>)
            /\ tick_handlers' = Put(tick_handlers, instrument, <<"unblock_register">>)
            /\ ticumulators' = Put(ticumulators, instrument, NewTicumulator)
            /\ trades' = Put(trades, instrument, << >>)
            /\ pc' = "subscribe"
            /\ loc' = [instrument |-> instrument, bar_type |-> bar_type,
                       bar_size |-> bar_size]
            /\ Called(<<Command("reqMktData", instrument)>>)
            /\ UNCHANGED <<bar_handlers, ret>>
       ELSE /\ RegisterInstall(tick_handlers[instrument], instrument,
                               bar_type, bar_size)
            /\ Called(<< >>)
            /\ UNCHANGED <<tick_errors, ticumulators, trades>>
    /\ UNCHANGED <<connected, next_order_id, ledgerVars, instruments, positions,
                   contract_details, requested, reconcile_contract_requests,
                   reconcile_open_orders_end, timerVars, reconciled>>

\* register() after its wait on the ticker's queue: the temporary handler
\* must be the only one, and is removed.
RegisterSubscribed ==
    IF Len(tick_handlers[loc.instrument]) # 1
    THEN /\ pc' = "idle"
         /\ loc' = << >>
         /\ ret' = <<"register", "AssertionError">>
         /\ UNCHANGED <<tick_handlers, bar_handlers>>
    ELSE RegisterInstall(<< >>, loc.instrument, loc.bar_type, loc.bar_size)

\* register(): the get() on the ticker's queue returns an item, an error
\* from _error, which is raised, or the None of a tick.
RegisterGet ==
    /\ pc = "subscribe"
    /\ tick_errors[loc.instrument] # << >>
    /\ tick_errors' = [tick_errors EXCEPT ![loc.instrument] = Tail(@)]
    /\ IF Head(tick_errors[loc.instrument]) # EndItem
       THEN /\ pc' = "idle"
            /\ loc' = << >>
            /\ ret' = <<"register", "ValueError">>
            /\ UNCHANGED <<tick_handlers, bar_handlers>>
       ELSE RegisterSubscribed
    /\ Called(<< >>)
    /\ UNCHANGED <<connected, next_order_id, ledgerVars, instruments, positions,
                   contract_details, requested, reconcile_contract_requests,
                   reconcile_open_orders_end, timerVars, ticumulators, trades, reconciled>>

\* register() that lets the Empty of the timed-out get() reach its caller.
RegisterTimeoutRaises ==
    /\ pc = "subscribe"
    /\ tick_errors[loc.instrument] = << >>
    /\ pc' = "idle"
    /\ loc' = << >>
    /\ ret' = <<"register", "Empty">>
    /\ Called(<< >>)
    /\ UNCHANGED <<connected, next_order_id, ledgerVars, instruments, positions,
                   contract_details, requested, reconcile_contract_requests,
                   reconcile_open_orders_end, marketVars, reconciled>>

\* register(): the get() times out on the empty queue; Empty is passed over.
RegisterTimeout ==
    /\ pc = "subscribe"
    /\ tick_errors[loc.instrument] = << >>
    /\ RegisterSubscribed
    /\ Called(<< >>)
    /\ UNCHANGED <<connected, next_order_id, ledgerVars, instruments, positions,
                   contract_details, requested, reconcile_contract_requests,
                   reconcile_open_orders_end, timerVars, tick_errors, ticumulators, trades,
                   reconciled>>

\* order() that tests the quantity only.
OrderRefusedForZero(quantity) == quantity = 0

\* order(): nothing is done for a quantity of 0 or when not connected.
OrderRefused(quantity) == quantity = 0 \/ connected # "True"

\* order() up to the read of the counter in _next_order_id.  The counter is
\* also written by _nextValidId on the reader thread.
OrderBegin(instrument, quantity, limit) ==
    /\ pc = "idle"
    /\ instrument \in instruments
    /\ IF OrderRefused(quantity)
       THEN /\ ret' = <<"order", None>>
            /\ UNCHANGED <<pc, loc>>
       ELSE /\ pc' = "order"
            /\ loc' = [instrument |-> instrument, quantity |-> quantity,
                       limit |-> limit, read |-> next_order_id]
            /\ UNCHANGED ret
    /\ Called(<< >>)
    /\ UNCHANGED <<connected, next_order_id, ledgerVars, resolveVars, reconciled>>

\* _next_order_id: the id order() takes, from the counter value it read.
NextOrderId(read) == read + 1

\* order(): the counter is stored, the Order recorded and placed, a copy returned.
OrderPlace ==
    /\ pc = "order"
    /\ LET order_id == NextOrderId(loc.read)
       IN  /\ next_order_id' = order_id
           /\ orders' = PutOrder(orders, order_id,
                                 FromIb(MakeIBOrder(loc.quantity, loc.limit),
                                        order_id, loc.instrument))
           /\ ret' = <<"order", Some(order_id)>>
           /\ Called(<<Command("placeOrder", order_id)>>)
    /\ pc' = "idle"
    /\ loc' = << >>
    /\ UNCHANGED <<connected, order_handlers, executions, resolveVars, reconciled>>

\* cancel(order)
Cancel(order_id) ==
    /\ pc = "idle"
    /\ order_id \in DOMAIN orders
    /\ ret' = <<"cancel", order_id>>
    /\ Called(IF connected = "True" THEN <<Command("cancelOrder", order_id)>>
              ELSE << >>)
    /\ UNCHANGED <<connected, next_order_id, ledgerVars, resolveVars, pc, loc,
                   reconciled>>

\* disconnect()
Disconnect ==
    /\ pc = "idle"
    /\ connected' = "False"
    /\ ret' = <<"disconnect">>
    /\ Called(<<Command("disconnect", 0)>>)
    /\ UNCHANGED <<next_order_id, ledgerVars, resolveVars, pc, loc, reconciled>>

\* reconcile(): strays are taken off the queue, the positions are requested.
ReconcileBegin ==
    /\ pc \in {"idle", "construct"}
    /\ reconcile_contract_requests' = << >>
    /\ pc' = "positions"
    /\ loc' = [req_ids |-> << >>]
    /\ Called(<<Command("reqPositions", 0)>>)
    /\ UNCHANGED <<connected, next_order_id, ledgerVars, instruments, positions,
                   contract_details, requested, reconcile_open_orders_end, marketVars, ret,
                   reconciled>>

\* reconcile(): one get() from the queue of request ids returns an item.
ReconcileGet ==
    /\ pc = "positions"
    /\ reconcile_contract_requests # << >>
    /\ loc' = [req_ids |-> Append(loc.req_ids, Head(reconcile_contract_requests))]
    /\ reconcile_contract_requests' = Tail(reconcile_contract_requests)
    /\ Called(<< >>)
    /\ UNCHANGED <<connected, next_order_id, ledgerVars, instruments, positions,
                   contract_details, requested, reconcile_open_orders_end, marketVars, pc,
                   ret, reconciled>>

\* The request ids among the items read after the first.
RequestIdsAfterFirst(items) ==
    IF items = << >> THEN << >>
    ELSE [i \in 1..Len(SelectSeq(Tail(items), LAMBDA x : x # None)) |->
             SelectSeq(Tail(items), LAMBDA x : x # None)[i][1]]

\* The request ids among the items reconcile() read, in order.
RequestIds(items) ==
    LET RECURSIVE Ids(_)
        Ids(q) == IF q = << >> THEN << >>
                  ELSE IF Head(q) = None THEN Ids(Tail(q))
                  ELSE <<Head(q)[1]>> \o Ids(Tail(q))
    IN  Ids(items)

\* reconcile() that asks for the open orders as soon as the positions are
\* read, leaving the request ids unhandled.
ReconcileTimeoutSkipsDetails ==
    /\ pc = "positions"
    /\ reconcile_contract_requests = << >>
    /\ ReconcileOrders
    /\ Called(<<Command("reqAllOpenOrders", 0)>>)
    /\ UNCHANGED <<connected, next_order_id, ledgerVars, instruments, positions,
                   contract_details, requested, reconcile_contract_requests, marketVars,
                   ret, reconciled>>

\* reconcile(): get() times out on the empty queue, which ends the reading;
\* each request id read is then handled, and the open orders are requested.
ReconcileTimeout ==
    /\ pc = "positions"
    /\ reconcile_contract_requests = << >>
    /\ LET ids == RequestIds(loc.req_ids)
       IN  IF ids # << >>
           THEN /\ pc' = "details"
                /\ loc' = [req_id |-> Head(ids), details |-> << >>,
                           todo |-> Tail(ids), from |-> "reconcile"]
                /\ Called(<< >>)
                /\ UNCHANGED reconcile_open_orders_end
           ELSE /\ ReconcileOrders
                /\ Called(<<Command("reqAllOpenOrders", 0)>>)
    /\ UNCHANGED <<connected, next_order_id, ledgerVars, instruments, positions,
                   contract_details, requested, reconcile_contract_requests, marketVars,
                   ret, reconciled>>

\* reconcile(): the wait for openOrderEnd ends, by the event or by the
\* timeout; the next order id is requested and reconcile() returns.
ReconcileEnd ==
    /\ pc = "open_orders"
    /\ pc' = "idle"
    /\ ret' = <<"reconcile", reconcile_open_orders_end>>
    /\ reconciled' = TRUE
    /\ Called(<<Command("reqIds", 0 - 1)>>)
    /\ UNCHANGED <<connected, next_order_id, ledgerVars, resolveVars, loc>>

----------------------------------------------------------------------------
(* The messages the session delivers. *)

MaxAccrual == 1

Statuses == {"Submitted", "Filled", "Cancelled", "ApiCanceled"}
OpenOrderStatuses == {"Submitted", "Filled", "Cancelled"}
Limits == {0} \cup Prices

OrderStatusMsg(orderId, status, filled, avgFillPrice) ==
    [typeName |-> "orderStatus", orderId |-> orderId, status |-> status,
     filled |-> filled, avgFillPrice |-> avgFillPrice]

OpenOrderMsg(orderId, conId, action, totalQuantity, lmtPrice, status, warningText) ==
    [typeName |-> "openOrder", orderId |-> orderId, m_conId |-> conId,
     order |-> [m_action |-> action, m_totalQuantity |-> totalQuantity,
                m_lmtPrice |-> lmtPrice],
     m_status |-> status, m_warningText |-> warningText]

ExecDetailsMsg(orderId, execId, cumQty, avgPrice) ==
    [typeName |-> "execDetails", m_orderId |-> orderId, m_execId |-> execId,
     m_cumQty |-> cumQty, m_avgPrice |-> avgPrice]

CommissionReportMsg(execId, commission, realizedPNL) ==
    [typeName |-> "commissionReport", m_execId |-> execId,
     m_commission |-> commission, m_realizedPNL |-> realizedPNL]

\* The text of an error message, of two lines.
ErrorText == <<"Order Message:", "\n", "rejected">>

ErrorMsg(code, id) ==
    [typeName |-> "error", errorCode |-> code, id |-> id, errorMsg |-> ErrorText]

TickPriceMsg(tickerId, field, price) ==
    [typeName |-> "tickPrice", tickerId |-> tickerId, field |-> field,
     price |-> price]

TickSizeMsg(tickerId, field, size) ==
    [typeName |-> "tickSize", tickerId |-> tickerId, field |-> field,
     size |-> size]

\* value is the semicolon-separated string, as the sequence of its fields.
TickStringMsg(tickerId, tickType, value) ==
    [typeName |-> "tickString", tickerId |-> tickerId, tickType |-> tickType,
     value |-> value]

NextValidIdMsg(orderId) == [typeName |-> "nextValidId", orderId |-> orderId]

\* A commission report whose sums stay within the model's range.
CommissionInRange(msg) ==
    LET found == OrderOfExecution(msg.m_execId)
    IN  found # None =>
            LET order == CommissionOrder(orders[found[1]], msg)
            IN  order.commission <= MaxAccrual /\ Abs(order.profit) <= MaxAccrual

----------------------------------------------------------------------------
(* The order ledger on a session that is up: the constructor has returned,  *)
(* the instruments have been resolved by get_instrument, and the session    *)
(* delivers order messages in any order, with repeats, while the caller     *)
(* registers handlers, places and cancels orders.                           *)

LedgerInit ==
    /\ connected = "True"
    /\ next_order_id = 0
    /\ instruments = InstIds
    /\ order_handlers = [i \in InstIds |-> 0]
    /\ orders = << >>
    /\ executions = << >>
    /\ positions = [i \in InstIds |-> <<0, None>>]
    /\ contract_details = [i \in InstIds |-> << >>]
    /\ reconcile_contract_requests = << >>
    /\ reconcile_open_orders_end = TRUE
    /\ tick_errors = << >>
    /\ tick_handlers = << >>
    /\ bar_handlers = << >>
    /\ ticumulators = << >>
    /\ trades = << >>
    /\ timer = NoTask
    /\ now = 0
    /\ requested = {<<i - 1, i>> : i \in InstIds}
    /\ pc = "idle"
    /\ loc = << >>
    /\ ret = <<"get_instrument", MaxInst>>
    /\ dpc = "idle"
    /\ dloc = NoMessage
    /\ calls = 0
    /\ sent = << >>
    /\ alerts = << >>
    /\ reconciled = TRUE

LedgerDispatch ==
    \/ \E id \in LedgerIds, status \in Statuses, filled \in FillValues, p \in Prices :
           OrderStatus(OrderStatusMsg(id, status, filled, p))
    \/ \E id \in LedgerIds, inst \in InstIds, action \in {"BUY", "SELL"},
          qty \in 1..MaxQty, status \in OpenOrderStatuses,
          warn \in {None, Some(<<"warningText">>)} :
           OpenOrder(OpenOrderMsg(id, inst, action, qty, 0, status, warn))
    \/ \E id \in LedgerIds, e \in ExecIds, cum \in FillValues, p \in Prices :
           ExecDetails(ExecDetailsMsg(id, e, cum, p))
    \/ \E e \in ExecIds, c \in {0, MaxAccrual, CRAZY_HIGH_COMMISSION} :
           /\ CommissionInRange(CommissionReportMsg(e, c, 0))
           /\ CommissionReport(CommissionReportMsg(e, c, 0))
    \/ \E id \in LedgerIds : Error(ErrorMsg(201, id))
    \/ \E id \in 0..MaxOrders : NextValidIdTest(NextValidIdMsg(id))
    \/ NextValidIdStore

LedgerCall ==
    \/ \E inst \in InstIds : RegisterOnOrder(inst)
    \/ \E inst \in InstIds, q \in Quantities :
           /\ next_order_id < MaxOrders
           /\ OrderBegin(inst, q, 0)
    \/ OrderPlace
    \/ \E id \in LedgerIds : Cancel(id)

LedgerNext == LedgerDispatch \/ LedgerCall

SpecLedger == LedgerInit /\ [][LedgerNext]_vars

----------------------------------------------------------------------------
(* The session from its construction: the constructor waits for the        *)
(* connection and reconciles; the caller then reconciles again and places   *)
(* orders while the session delivers connection, position, contract and     *)
(* open-order messages, among them the orders of other clients of the       *)
(* account.                                                                 *)

PositionMsg(conId, pos, avgCost, multiplier) ==
    [typeName |-> "position", m_conId |-> conId, pos |-> pos,
     avgCost |-> avgCost, m_multiplier |-> multiplier]

ContractDetailsMsg(reqId, details) ==
    [typeName |-> "contractDetails", reqId |-> reqId, contractDetails |-> details]

Plain(name) == [typeName |-> name]

ReqIds == 0..(MaxRequests - 1)

SessionDispatch ==
    \/ ManagedAccounts(Plain("managedAccounts"))
    \/ \E id \in OrderIds : NextValidIdTest(NextValidIdMsg(id))
    \/ NextValidIdStore
    \/ \E inst \in InstIds : Position(PositionMsg(inst, 1, 2, None))
    \/ PositionRequest
    \/ PositionEnd(Plain("positionEnd"))
    \/ \E r \in ReqIds, inst \in InstIds :
           ContractDetails(ContractDetailsMsg(r, DetailsItem(inst, "STK", 1)))
    \/ \E r \in ReqIds : ContractDetailsEnd([typeName |-> "contractDetailsEnd",
                                             reqId |-> r])
    \/ \E id \in OrderIds, inst \in InstIds :
           OpenOrder(OpenOrderMsg(id, inst, "BUY", 1, 0, "Submitted", None))
    \/ OpenOrderEnd(Plain("openOrderEnd"))

SessionCall ==
    \/ InitConnected
    \/ InitFail
    \/ DetailsGet
    \/ DetailsTimeout
    \/ ReconcileBegin
    \/ ReconcileGet
    \/ ReconcileTimeout
    \/ ReconcileEnd
    \/ \E inst \in InstIds :
           /\ next_order_id < MaxOrderId
           /\ OrderBegin(inst, 1, 0)
    \/ OrderPlace

SessionNext == SessionDispatch \/ SessionCall

SpecSession == Init /\ [][SessionNext]_vars

----------------------------------------------------------------------------
(* reconcile() called on a constructed session whose replies arrive within  *)
(* the timeouts: the positions and the positions' end while reconcile()     *)
(* reads its queue, one contract and the end for each contract-details      *)
(* request for a contract id, the open orders' end while it waits for it.   *)

MaxPositions == 2

\* The contract ids positions are reported for; the first is in the cache.
PositionIds == 1..MaxPositions
CachedIds == {1}

\* The session after the constructor and get_instrument() for the cached ids.
ReconcileInit ==
    /\ connected = "True"
    /\ next_order_id = 0
    /\ instruments = CachedIds
    /\ order_handlers = [i \in PositionIds |-> 0]
    /\ orders = << >>
    /\ executions = << >>
    /\ positions = [i \in CachedIds |-> <<0, None>>]
    /\ contract_details = [i \in CachedIds |-> << >>]
    /\ reconcile_contract_requests = << >>
    /\ reconcile_open_orders_end = TRUE
    /\ tick_errors = << >>
    /\ tick_handlers = << >>
    /\ bar_handlers = << >>
    /\ ticumulators = << >>
    /\ trades = << >>
    /\ timer = NoTask
    /\ now = 0
    /\ requested = {<<i - 1, i>> : i \in CachedIds}
    /\ pc = "idle"
    /\ loc = << >>
    /\ ret = <<"get_instrument", 1>>
    /\ dpc = "idle"
    /\ dloc = NoMessage
    /\ calls = 0
    /\ sent = << >>
    /\ alerts = << >>
    /\ reconciled = TRUE

\* The positions' end was delivered to the reconcile() in progress.
PositionsEnded ==
    \/ \E i \in DOMAIN reconcile_contract_requests :
           reconcile_contract_requests[i] = None
    \/ \E i \in DOMAIN loc.req_ids : loc.req_ids[i] = None

\* The slot of request req_id holds the end of its answer.
DetailsEnded(req_id) ==
    \E i \in DOMAIN contract_details[req_id + 1] :
        contract_details[req_id + 1][i] = EndItem

\* Request r is still to be answered: its contract is not in the cache, or
\* reconcile() is waiting on its slot.
Unanswered(r) ==
    \/ r[2] \notin instruments
    \/ pc = "details" /\ loc.req_id = r[1]

ReconcileDispatch ==
    \/ \E inst \in PositionIds, pos \in 1..MaxQty, m \in {None, Some(2)} :
           /\ pc = "positions"
           /\ ~PositionsEnded
           /\ Position(PositionMsg(inst, pos, 2, m))
    \/ PositionRequest
    \/ /\ pc = "positions"
       /\ ~PositionsEnded
       /\ PositionEnd(Plain("positionEnd"))
    \/ \E r \in requested :
           /\ Unanswered(r)
           /\ DetailsBacklog(r[1]) = 0
           /\ ContractDetails(ContractDetailsMsg(r[1], DetailsItem(r[2], "STK", 1)))
    \/ \E r \in requested :
           /\ Unanswered(r)
           /\ DetailsBacklog(r[1]) = 1
           /\ ~DetailsEnded(r[1])
           /\ ContractDetailsEnd([typeName |-> "contractDetailsEnd",
                                  reqId |-> r[1]])
    \/ /\ pc = "open_orders"
       /\ ~reconcile_open_orders_end
       /\ OpenOrderEnd(Plain("openOrderEnd"))

ReconcileCall ==
    \/ ReconcileBegin
    \/ ReconcileGet
    \/ /\ pc = "positions"
       /\ PositionsEnded
       /\ ReconcileTimeout
    \/ DetailsGet
    \/ /\ reconcile_open_orders_end
       /\ ReconcileEnd

ReconcileNext == ReconcileDispatch \/ ReconcileCall

SpecReconcile == ReconcileInit /\ [][ReconcileNext]_vars

----------------------------------------------------------------------------
(* The position map: a constructed session with nothing in the cache, on    *)
(* which the caller resolves instruments and places orders while the        *)
(* session reports positions, contracts, fills, executions and commissions. *)

\* Average costs that the multipliers divide, and the multipliers reported.
Costs == {2, 4}
Multipliers == {None, Some(2)}

PositionMsgs(inst) ==
    {PositionMsg(inst, pos, cost, m) :
         pos \in 0..1, cost \in Costs, m \in Multipliers}

PositionsInit ==
    /\ connected = "True"
    /\ next_order_id = 0
    /\ instruments = {}
    /\ order_handlers = [i \in InstIds |-> 0]
    /\ orders = << >>
    /\ executions = << >>
    /\ positions = << >>
    /\ contract_details = << >>
    /\ reconcile_contract_requests = << >>
    /\ reconcile_open_orders_end = TRUE
    /\ tick_errors = << >>
    /\ tick_handlers = << >>
    /\ bar_handlers = << >>
    /\ ticumulators = << >>
    /\ trades = << >>
    /\ timer = NoTask
    /\ now = 0
    /\ requested = {}
    /\ pc = "idle"
    /\ loc = << >>
    /\ ret = <<"none">>
    /\ dpc = "idle"
    /\ dloc = NoMessage
    /\ calls = 0
    /\ sent = << >>
    /\ alerts = << >>
    /\ reconciled = TRUE

PositionsDispatch ==
    \/ \E inst \in InstIds : \E msg \in PositionMsgs(inst) : Position(msg)
    \/ PositionRequest
    \/ \E r \in ReqIds, inst \in InstIds :
           ContractDetails(ContractDetailsMsg(r, DetailsItem(inst, "STK", 1)))
    \/ \E r \in ReqIds : ContractDetailsEnd([typeName |-> "contractDetailsEnd",
                                             reqId |-> r])
    \/ \E id \in LedgerIds : OrderStatus(OrderStatusMsg(id, "Filled", 1, 1))
    \/ \E id \in LedgerIds, e \in ExecIds : ExecDetails(ExecDetailsMsg(id, e, 1, 1))
    \/ \E e \in ExecIds : CommissionReport(CommissionReportMsg(e, 0, 0))

PositionsCall ==
    \/ \E inst \in InstIds : GetInstrumentBegin(inst)
    \/ GetInstrumentRequest
    \/ DetailsGet
    \/ DetailsTimeout
    \/ \E inst \in InstIds :
           /\ next_order_id < MaxOrders
           /\ OrderBegin(inst, 1, 0)
    \/ OrderPlace

PositionsNext == PositionsDispatch \/ PositionsCall

SpecPositions == PositionsInit /\ [][PositionsNext]_vars

----------------------------------------------------------------------------
(* Instrument resolution: get_instrument() calls answered by any mix of
   stock and future candidates, the end event, a contract error, or
   nothing at all. *)
SecTypes == {"STK", "FUT"}

Months == 1..MaxMonth

\* The candidates IB may report: the future of each contract month is a
\* contract of its own, so the contract id tells the months apart.
Candidates == {DetailsItem(m, t, m) : m \in Months, t \in SecTypes}

ResolveDispatch ==
    \/ \E r \in ReqIds, c \in Candidates :
           ContractDetails(ContractDetailsMsg(r, c))
    \/ \E r \in ReqIds : ContractDetailsEnd([typeName |-> "contractDetailsEnd",
                                             reqId |-> r])
    \/ \E r \in ReqIds : Error(ErrorMsg(200, r))

ResolveCall ==
    \/ \E c \in Months : GetInstrumentBegin(c)
    \/ GetInstrumentRequest
    \/ DetailsGet
    \/ DetailsTimeout

ResolveNext == ResolveDispatch \/ ResolveCall

SpecResolve == PositionsInit /\ [][ResolveNext]_vars

----------------------------------------------------------------------------
(* Market data: on a session with its instruments resolved the caller
   registers bar handlers, for bars by time or by tick, while the session
   delivers ticks and ticker errors and the bar timers fire. *)
TradePrices == {Float(10), Float(12)}
TradeSizes == {Float(0), Float(2)}

\* RTVOLUME strings: a trade, or one without a price.
VolumeStrings ==
    {<<Text(p), Text(s), Text(Float(1000)), Text(Float(2)), Text(Float(0))>> :
         p \in TradePrices, s \in TradeSizes}
        \cup {<<Blank, Text(Float(0)), Text(Float(1000)), Text(Float(2)),
                Text(Float(0))>>}

MarketDispatch ==
    \/ \E id \in InstIds, field \in {"BID", "LAST"},
          price \in {Float(1), Float(0 - 1)} :
           TickPrice(TickPriceMsg(id, field, price))
    \/ \E id \in InstIds, field \in {"ASK_SIZE", "VOLUME"} :
           TickSize(TickSizeMsg(id, field, Float(1)))
    \/ \E id \in InstIds, value \in VolumeStrings :
           TickString(TickStringMsg(id, "RT_VOLUME", value))
    \/ \E id \in InstIds : Error(ErrorMsg(300, id))

MarketCall ==
    \/ \E inst \in InstIds, bar_type \in {"time", "tick"} :
           RegisterOnBar(inst, bar_type, 1)
    \/ RegisterGet
    \/ RegisterTimeout

MarketTimer == \E id \in InstIds : CallBarHandlers("time", 1, id)

MarketNext == MarketDispatch \/ MarketCall \/ MarketTimer

SpecMarket == LedgerInit /\ [][MarketNext]_vars

----------------------------------------------------------------------------
(* class Ticumulator used by itself: one accumulator to which its owner adds
   values of any field in any order, valid or not, and of which it takes
   bars and peeks. *)
TicumulatorInit ==
    /\ connected = "True"
    /\ next_order_id = 0
    /\ instruments = InstIds
    /\ order_handlers = [i \in InstIds |-> 0]
    /\ orders = << >>
    /\ executions = << >>
    /\ positions = [i \in InstIds |-> <<0, None>>]
    /\ contract_details = [i \in InstIds |-> << >>]
    /\ reconcile_contract_requests = << >>
    /\ reconcile_open_orders_end = TRUE
    /\ tick_errors = << >>
    /\ tick_handlers = << >>
    /\ bar_handlers = << >>
    /\ ticumulators = [i \in InstIds |-> NewTicumulator]
    /\ trades = [i \in InstIds |-> << >>]
    /\ timer = NoTask
    /\ now = 0
    /\ requested = {<<i - 1, i>> : i \in InstIds}
    /\ pc = "idle"
    /\ loc = << >>
    /\ ret = <<"none">>
    /\ dpc = "idle"
    /\ dloc = NoMessage
    /\ calls = 0
    /\ sent = << >>
    /\ alerts = << >>
    /\ reconciled = TRUE

\* The values the owner adds: trade prices and sizes, a quote, a field that
\* is no input, and values add() refuses.
AddInputs ==
    ({"last"} \X (TradePrices \cup {Float(0 - 1)}))
        \cup ({"lastsize"} \X (TradeSizes \cup {NaN}))
        \cup ({"bid"} \X {Float(1), Inf})
        \cup ({"time", "vwap"} \X {Float(1)})

TicumulatorNext ==
    \/ \E id \in InstIds, a \in AddInputs : TicumulatorAdd(id, a[1], a[2])
    \/ \E id \in InstIds : TicumulatorBar(id)
    \/ \E id \in InstIds : TicumulatorPeek(id)

SpecTicumulator == TicumulatorInit /\ [][TicumulatorNext]_vars

----------------------------------------------------------------------------
(* An accumulator between the two threads that use it: the reader thread
   adds the trades of RTVOLUME strings while the thread of a bar timer takes
   bars, statement by statement.  Here `trades` keeps every trade added,
   whatever bars were taken. *)
BarRaceInit ==
    /\ connected = "True"
    /\ next_order_id = 0
    /\ instruments = InstIds
    /\ order_handlers = [i \in InstIds |-> 0]
    /\ orders = << >>
    /\ executions = << >>
    /\ positions = [i \in InstIds |-> <<0, None>>]
    /\ contract_details = [i \in InstIds |-> << >>]
    /\ reconcile_contract_requests = << >>
    /\ reconcile_open_orders_end = TRUE
    /\ tick_errors = << >>
    /\ tick_handlers = [i \in InstIds |-> << >>]
    /\ bar_handlers = [k \in {<<"time", 1, i>> : i \in InstIds} |-> <<"on_bar">>]
    /\ ticumulators = [i \in InstIds |-> NewTicumulator]
    /\ trades = [i \in InstIds |-> << >>]
    /\ timer = NoBar
    /\ now = 0
    /\ requested = {<<i - 1, i>> : i \in InstIds}
    /\ pc = "idle"
    /\ loc = << >>
    /\ ret = <<"none">>
    /\ dpc = "idle"
    /\ dloc = NoMessage
    /\ calls = 0
    /\ sent = << >>
    /\ alerts = << >>
    /\ reconciled = TRUE

BarRaceNext ==
    \/ \E id \in InstIds, value \in VolumeStrings :
           TickString(TickStringMsg(id, "RT_VOLUME", value))
    \/ \E id \in InstIds : BarPeek("time", 1, id)
    \/ BarResetPrices
    \/ BarResetSumLast
    \/ BarResetSumVol

SpecBarRace == BarRaceInit /\ [][BarRaceNext]_vars

----------------------------------------------------------------------------
(* class RecurringTask used by itself: one task whose function takes any
   duration up to MaxDuration, and which its owner may stop at any point. *)

Durations == 0..MaxDuration

\* The steps of the task's thread.
TaskThread ==
    \/ TaskRun
    \/ TaskTest
    \/ \E d \in Durations : TaskFunc(d)
    \/ TaskSleep

TimerNext == RecurringTaskInit \/ TaskThread \/ TaskStop

SpecTimer == LedgerInit /\ [][TimerNext]_vars

\* The thread of a started task is scheduled, its function returns and its
\* sleeps end.
SpecTimerLive == SpecTimer /\ WF_vars(TaskThread)

----------------------------------------------------------------------------
(* The blocking calls: get_instrument(), register() with a bar handler for a
   new ticker, and reconcile(), on a session that answers a request in part,
   in full, or not at all.  The caller's thread is scheduled, and a get() or
   a wait() with a timeout returns when the timeout has passed. *)

\* The session delivers what answers the call in progress, if anything.
BlockingDispatch ==
    \/ /\ pc = "details"
       /\ ContractDetails(ContractDetailsMsg(loc.req_id,
                                             DetailsItem(1, "STK", 1)))
    \/ /\ pc = "details"
       /\ ContractDetailsEnd([typeName |-> "contractDetailsEnd",
                              reqId |-> loc.req_id])
    \/ \E inst \in PositionIds :
           /\ pc = "positions"
           /\ Position(PositionMsg(inst, 1, 2, None))
    \/ PositionRequest
    \/ /\ pc = "positions"
       /\ PositionEnd(Plain("positionEnd"))
    \/ /\ pc = "open_orders"
       /\ OpenOrderEnd(Plain("openOrderEnd"))
    \/ /\ pc = "subscribe"
       /\ TickPrice(TickPriceMsg(loc.instrument, "LAST", Float(1)))
    \/ /\ pc = "subscribe"
       /\ Error(ErrorMsg(300, loc.instrument))

\* The calls begin.
BlockingBegin ==
    \/ \E c \in InstIds : GetInstrumentBegin(c)
    \/ \E inst \in InstIds : RegisterOnBar(inst, "tick", 1)
    \/ ReconcileBegin

\* The steps of a call that has begun.
BlockingWait ==
    \/ GetInstrumentRequest
    \/ DetailsGet
    \/ DetailsTimeout
    \/ RegisterGet
    \/ RegisterTimeout
    \/ ReconcileGet
    \/ ReconcileTimeout
    \/ ReconcileEnd

BlockingNext == BlockingDispatch \/ BlockingBegin \/ BlockingWait

SpecBlocking == LedgerInit /\ [][BlockingNext]_vars /\ WF_vars(BlockingWait)

----------------------------------------------------------------------------
(* Orders on a connection that comes and goes: the session reports the loss
   and the return of the connection and the state of the orders, while the
   caller places and cancels orders and disconnects. *)

ConnectionDispatch ==
    \/ Error(ErrorMsg(1100, 0))
    \/ Error(ErrorMsg(1102, 0))
    \/ ConnectionClosed(Plain("connectionClosed"))
    \/ \E id \in LedgerIds, status \in Statuses, filled \in FillValues :
           OrderStatus(OrderStatusMsg(id, status, filled, 1))

ConnectionCall ==
    \/ \E inst \in InstIds, q \in Quantities :
           /\ ~OrderRefused(q) => next_order_id < MaxOrders
           /\ OrderBegin(inst, q, 0)
    \/ OrderPlace
    \/ \E id \in LedgerIds : Cancel(id)
    \/ Disconnect

ConnectionNext == ConnectionDispatch \/ ConnectionCall

SpecConnection == LedgerInit /\ [][ConnectionNext]_vars

----------------------------------------------------------------------------
(* Commission reports: executions and commission reports for orders on
   record, the reports with plausible values, with negative ones and with
   the placeholder values at the sanity bounds. *)

Commissions == {0 - 1, 0, MaxAccrual, CRAZY_HIGH_COMMISSION - 1,
                CRAZY_HIGH_COMMISSION}
Profits == {0 - CRAZY_HIGH_PROFIT, 1 - CRAZY_HIGH_PROFIT, 0 - MaxAccrual, 0,
            MaxAccrual, CRAZY_HIGH_PROFIT}

\* A commission report that leaves the sums among the values above.
CommissionBounded(msg) ==
    LET found == OrderOfExecution(msg.m_execId)
    IN  found # None =>
            LET order == CommissionOrder(orders[found[1]], msg)
            IN  order.commission \in Commissions /\ order.profit \in Profits

CommissionDispatch ==
    \/ \E id \in LedgerIds, inst \in InstIds, action \in {"BUY", "SELL"},
          status \in OpenOrderStatuses :
           OpenOrder(OpenOrderMsg(id, inst, action, MaxQty, 0, status, None))
    \/ \E id \in LedgerIds, e \in ExecIds, cum \in 1..MaxQty :
           ExecDetails(ExecDetailsMsg(id, e, cum, 1))
    \/ \E e \in 1..(MaxExec + 1), c \in Commissions, p \in Profits :
           /\ CommissionBounded(CommissionReportMsg(e, c, p))
           /\ CommissionReport(CommissionReportMsg(e, c, p))

CommissionCall == \E inst \in InstIds : RegisterOnOrder(inst)

CommissionNext == CommissionDispatch \/ CommissionCall

SpecCommission == LedgerInit /\ [][CommissionNext]_vars

----------------------------------------------------------------------------
(* The connection flag: on a session that is up the broker reports the loss
   and the return of the connection, and goes on delivering the account
   list, next valid ids and order states, while the caller places and
   cancels orders. *)

ReconnectDispatch ==
    \/ Error(ErrorMsg(1100, 0))
    \/ Error(ErrorMsg(1102, 0))
    \/ ManagedAccounts(Plain("managedAccounts"))
    \/ \E id \in 0..MaxOrders : NextValidIdTest(NextValidIdMsg(id))
    \/ NextValidIdStore
    \/ \E id \in LedgerIds, status \in Statuses, filled \in FillValues :
           OrderStatus(OrderStatusMsg(id, status, filled, 1))

ReconnectCall ==
    \/ \E inst \in InstIds, q \in Quantities :
           /\ ~OrderRefused(q) => next_order_id < MaxOrders
           /\ OrderBegin(inst, q, 0)
    \/ OrderPlace
    \/ \E id \in LedgerIds : Cancel(id)

ReconnectNext == ReconnectDispatch \/ ReconnectCall

SpecReconnect == LedgerInit /\ [][ReconnectNext]_vars

----------------------------------------------------------------------------
(* Properties of the order ledger. *)

\* A step that is not order() recording a new Order: the steps of the reader
\* thread are among these.
NoOrderPlaced == ~(pc = "order" /\ pc' = "idle")

\* The fill notifications for an order: order-status messages that are not
\* cancellations, and execution details.
FillStatuses == Statuses \ {"ApiCanceled", "Cancelled"}

\* C1: in every step in which a message is dispatched, whatever the message,
\* the magnitude of every order's filled quantity does not decrease.
C1_FilledNeverDecreases ==
    [][NoOrderPlaced =>
          \A id \in DOMAIN orders :
              /\ id \in DOMAIN orders'
              /\ Abs(orders'[id].filled) >= Abs(orders[id].filled)]_vars

\* C1, witness: a partial fill merged from an execution, the order still open.
C1_Witness ==
    \E id \in DOMAIN orders :
        /\ 0 < Abs(orders[id].filled)
        /\ Abs(orders[id].filled) < Abs(orders[id].quantity)
        /\ orders[id].fill_time # None
        /\ orders[id].open

\* C2: in every state every order's filled quantity is at most its quantity,
\* in magnitude.
C2_FilledWithinQuantity ==
    \A id \in DOMAIN orders :
        Abs(orders[id].filled) <= Abs(orders[id].quantity)

\* C3: in no state is an order both cancelled and completely filled.
C3_FilledExcludesCancelled ==
    \A id \in DOMAIN orders :
        ~(orders[id].cancelled /\ Complete(orders[id]))

\* C4: a fill notification dispatched for an order that is cancelled leaves
\* its filled quantity and average price as they are and invokes no handler.
C4_CancelledIgnoresFills ==
    [][\A id \in DOMAIN orders, f \in FillValues, p \in Prices :
          orders[id].cancelled =>
              /\ \A status \in FillStatuses :
                     OrderStatus(OrderStatusMsg(id, status, f, p)) =>
                         /\ orders'[id].filled = orders[id].filled
                         /\ orders'[id].avg_price = orders[id].avg_price
                         /\ calls' = 0
              /\ \A e \in ExecIds :
                     ExecDetails(ExecDetailsMsg(id, e, f, p)) =>
                         /\ orders'[id].filled = orders[id].filled
                         /\ orders'[id].avg_price = orders[id].avg_price
                         /\ calls' = 0]_vars

\* C5: an order id whose order is not open has no open order in the next
\* state, whatever the step.
C5_ClosedStaysClosed ==
    [][\A id \in DOMAIN orders :
          ~orders[id].open => (id \in DOMAIN orders' /\ ~orders'[id].open)]_vars

\* C6: in every state, for every order and every fill or cancel notification
\* for it, the order after the notification is left as it is by the same
\* notification delivered again, and the second delivery of a fill invokes no
\* handler.
C6_RepeatedNotification ==
    \A id \in DOMAIN orders, f \in FillValues, p \in Prices :
        /\ \A status \in Statuses :
               LET msg == OrderStatusMsg(id, status, f, p)
                   once == OrderStatusOrder(orders[id], msg)
               IN  /\ OrderStatusOrder(once, msg) = once
                   /\ status \in FillStatuses => OrderStatusCalls(once, msg) = 0
        /\ \A e \in ExecIds :
               LET msg == ExecDetailsMsg(id, e, f, p)
                   once == ExecDetailsOrder(orders[id], msg)
               IN  ExecDetailsOrder(once, msg) = once

\* C6, witness: a fill taken from an order-status message has just invoked the
\* handler, and the message that carries the same fill is now refused.
C6_Witness ==
    \E id \in DOMAIN orders :
        /\ calls = 1
        /\ executions = << >>
        /\ orders[id].message = None
        /\ ~orders[id].cancelled
        /\ orders[id].filled > 0
        /\ \A p \in Prices :
               ~OrderStatusFills(orders[id],
                                 OrderStatusMsg(id, "Filled", orders[id].filled, p))

\* C7: a cancel notification for an order not yet cancelled invokes the
\* order's handlers once each, and one for an order already cancelled none.
C7_CancelCallsHandlerOnce ==
    [][\A id \in DOMAIN orders, status \in Statuses \ FillStatuses,
          f \in FillValues, p \in Prices :
          OrderStatus(OrderStatusMsg(id, status, f, p)) =>
              calls' = IF orders[id].cancelled THEN 0
                       ELSE CallOrderHandlers(orders[id])]_vars

\* C8: the Order that order() records has the quantity it was called with,
\* negative for a sale.
C8_QuantitySigned ==
    [][(pc = "order" /\ pc' = "idle") =>
          orders'[next_order_id'].quantity = loc.quantity]_vars

\* C9: in every step, of either thread, the order-id counter does not
\* decrease.
C9_CounterNeverDecreases == [][next_order_id' >= next_order_id]_vars

\* C10: once reconcile() has returned, the id order() takes is not the id of
\* an Order already in the map.
C10_OrderNeverOverwrites ==
    [][(reconciled /\ pc = "order" /\ pc' = "idle") =>
          next_order_id' \notin DOMAIN orders]_vars

----------------------------------------------------------------------------
(* Properties of reconciliation and of instrument resolution. *)

\* C11: reconcile() has just returned, its request for the next id being the
\* last command sent; the next-valid-id the session then reports in answer
\* is not above the order-id counter.
C11_ReconcileAdvancesCounter ==
    [][\A id \in OrderIds :
          (/\ pc = "idle"
           /\ ret[1] = "reconcile"
           /\ sent = <<Command("reqIds", 0 - 1)>>
           /\ NextValidIdTest(NextValidIdMsg(id))) => next_order_id >= id]_vars

\* C12: with the replies in time, a position reported for a cached contract
\* id issues no contract-details request, one reported for an id not in the
\* cache issues exactly one, and when reconcile() returns every id a
\* position was reported for is in the instrument cache.
C12_ReconcileResolvesUnknown ==
    [][/\ \A inst \in PositionIds, pos \in 1..MaxQty, m \in {None, Some(2)} :
              Position(PositionMsg(inst, pos, 2, m)) =>
                  IF inst \in instruments
                  THEN /\ dpc' = "idle"
                       /\ sent' = << >>
                       /\ requested' = requested
                       /\ contract_details' = contract_details
                  ELSE /\ dpc' = "position"
                       /\ requested' = requested
       /\ PositionRequest =>
              /\ dloc.msg.m_conId \notin instruments
              /\ sent' = <<[cmd |-> "reqContractDetails",
                            id |-> Len(contract_details)]>>
              /\ requested' =
                     requested \cup {<<Len(contract_details), dloc.msg.m_conId>>}
              /\ Cardinality(requested') = Cardinality(requested) + 1
       /\ (pc = "open_orders" /\ pc' = "idle") =>
              instruments' = DOMAIN positions']_vars

\* C12, witness: reconcile() has returned in time after positions for the
\* cached id and for one not in the cache, now in the cache.
C12_Witness ==
    /\ pc = "idle"
    /\ ret = <<"reconcile", TRUE>>
    /\ instruments = PositionIds
    /\ Cardinality(requested) = MaxPositions
    /\ \A i \in PositionIds : positions[i][1] > 0

\* C13: in every step, a position update for an instrument id leaves its
\* entry at the update's quantity and its average cost divided by the
\* multiplier (1 when there is none); every other step leaves an entry as it
\* is, and an entry that a resolution makes is (0, None).
C13_PositionEntry ==
    [][\A id \in InstIds :
          /\ \A msg \in PositionMsgs(id) :
                 \/ id \in instruments /\ Position(msg)
                 \/ PositionRequest /\ dloc.msg = msg
                 => positions'[id] =
                        <<msg.pos,
                          Some(IF msg.m_multiplier = None THEN msg.avgCost
                               ELSE msg.avgCost \div msg.m_multiplier[1])>>
          /\ ~(\/ \E msg \in PositionMsgs(id) : id \in instruments /\ Position(msg)
               \/ PositionRequest /\ dloc.msg.m_conId = id)
             => IF id \in DOMAIN positions
                THEN id \in DOMAIN positions' /\ positions'[id] = positions[id]
                ELSE id \in DOMAIN positions' =>
                         positions'[id] = <<0, None>> /\ id \in instruments']_vars

\* C13, witness: the instrument was resolved a second time and an order for
\* it filled, and its entry is the one a position update with a multiplier
\* left.
C13_Witness ==
    \E id \in InstIds :
        /\ ret = <<"get_instrument", id>>
        /\ Len(contract_details) = 2
        /\ positions[id] = <<1, Some(2)>>
        /\ \E o \in DOMAIN orders : Complete(orders[o])

\* The get_instrument() call that reads the details of its request leaves
\* _handle_contract_details in this step.
ResolutionEnds == pc = "details" /\ loc.from = "get_instrument" /\ pc' = "idle"

\* The items read so far are all contract details, no error among them.
OnlyCandidates(details) ==
    \A i \in 1..Len(details) : details[i].kind = "details"

\* C14: when the end event is read and no candidate came before it,
\* get_instrument() fails: the call is over in that very step (it does not
\* go on waiting), it returns no instrument, and neither the instrument cache
\* nor the position map has changed.
C14_NoCandidatesFails ==
    [][(/\ pc = "details"
        /\ loc.from = "get_instrument"
        /\ loc.details = << >>
        /\ contract_details[loc.req_id + 1] # << >>
        /\ Head(contract_details[loc.req_id + 1]) = EndItem
        /\ DetailsGet)
       => /\ pc' = "idle"
          /\ ret' = <<"get_instrument", 0>>
          /\ instruments' = instruments
          /\ positions' = positions]_vars

\* The end event is alone in the queue of a get_instrument() that has read
\* nothing yet, the cache being empty.
C14_Witness ==
    /\ pc = "details"
    /\ loc.from = "get_instrument"
    /\ loc.details = << >>
    /\ contract_details[loc.req_id + 1] = <<EndItem>>
    /\ instruments = {}

\* C15: when get_instrument() ends having read several candidates, it
\* returns an instrument only if all of them are futures, and then the one
\* of a candidate whose contract month no other candidate's precedes, which
\* it puts in the cache; otherwise it fails and the cache is as it was.
C15_SeveralCandidates ==
    [][(/\ ResolutionEnds
        /\ Len(loc.details) >= 2
        /\ OnlyCandidates(loc.details))
       => LET details == loc.details
              n == Len(details)
          IN  IF \A i \in 1..n : details[i].secType = "FUT"
              THEN /\ \E i \in 1..n :
                          /\ ret' = <<"get_instrument", details[i].conId>>
                          /\ \A j \in 1..n : details[i].month <= details[j].month
                   /\ instruments' = instruments \cup {ret'[2]}
              ELSE /\ ret' = <<"get_instrument", 0>>
                   /\ instruments' = instruments
                   /\ positions' = positions]_vars

\* Two futures, the later month first, were read and the end event is next.
C15_Witness ==
    /\ pc = "details"
    /\ loc.from = "get_instrument"
    /\ loc.details = <<DetailsItem(2, "FUT", 2), DetailsItem(1, "FUT", 1)>>
    /\ contract_details[loc.req_id + 1] = <<EndItem>>
    /\ instruments = {}

\* C16: a get_instrument() whose wait times out before the end event fails
\* and leaves the instrument cache as it was, candidates read or not.
C16_TimeoutInsertsNothing ==
    [][(pc = "details" /\ loc.from = "get_instrument" /\ DetailsTimeout)
       => /\ ret' = <<"get_instrument", 0>>
          /\ instruments' = instruments]_vars

----------------------------------------------------------------------------
(* Properties of market data subscription and of the accumulator. *)

\* C18: an order-related error that names a known order leaves the order
\* cancelled and not open, with the text of the error as its message, and
\* calls each order handler of the order's instrument once; the caller's
\* thread is where it was and nothing was returned or raised to it.
C18_OrderError ==
    [][\A id \in LedgerIds :
           (id \in DOMAIN orders /\ Error(ErrorMsg(201, id)))
           => /\ orders'[id].cancelled
              /\ ~orders'[id].open
              /\ orders'[id].message = Some(<<"Order Message:", " ", "rejected">>)
              /\ calls' = order_handlers[orders[id].instrument]
              /\ UNCHANGED <<pc, loc, ret>>]_vars

\* An order placed by order() on an instrument with a handler has got the
\* error: it carries the message and the handler was called.
C18_Witness ==
    \E id \in DOMAIN orders :
        /\ calls = 1
        /\ ret[1] = "order" /\ ret[2] = Some(id)
        /\ orders[id].cancelled
        /\ ~orders[id].open
        /\ orders[id].filled = 0
        /\ orders[id].message = Some(<<"Order Message:", " ", "rejected">>)

\* C19: a peek() that follows a bar() of the same accumulator at once
\* returns open, high, low and close all equal to the close that bar()
\* returned, and a vwap of 0.
C19_BarThenPeek ==
    [][\A id \in InstIds :
           (ret[1] = "bar" /\ ret[3] = id /\ TicumulatorPeek(id))
           => /\ ret'[2].open = ret[2].close
              /\ ret'[2].high = ret[2].close
              /\ ret'[2].low = ret[2].close
              /\ ret'[2].close = ret[2].close
              /\ ret'[2].vwap = Float(0)]_vars

\* bar() has just returned a bar with open, high, low and close not all the
\* same and a vwap that is not 0; the peek() is next.
C19_Witness ==
    /\ ret[1] = "bar"
    /\ ret[2].open = Float(10)
    /\ ret[2].high = Float(12)
    /\ ret[2].low = Float(10)
    /\ ret[2].close = Float(12)
    /\ ret[2].vwap = Float(11)

\* The sum of price * size and the sum of the sizes over trades, and the
\* volume-weighted average price they give.
RECURSIVE SumProducts(_)
SumProducts(ts) ==
    IF ts = << >> THEN Float(0)
    ELSE FAdd(FMul(Head(ts)[1], Head(ts)[2]), SumProducts(Tail(ts)))

RECURSIVE SumSizes(_)
SumSizes(ts) ==
    IF ts = << >> THEN Float(0) ELSE FAdd(Head(ts)[2], SumSizes(Tail(ts)))

TradesVwap(ts) ==
    IF SumSizes(ts) = Float(0) THEN Float(0)
    ELSE FDiv(SumProducts(ts), SumSizes(ts))

\* C20: the vwap that peek() and bar() return is the sum of price * size
\* over the sum of the sizes of the trades added since the bar() before,
\* each size a trade at the last price added before it, and 0 when their
\* sizes sum to 0.
C20_VwapOfTrades ==
    [][\A id \in InstIds :
           (TicumulatorPeek(id) \/ TicumulatorBar(id))
           => ret'[2].vwap = TradesVwap(trades[id])]_vars

\* peek() has returned a vwap of 11 for the trades (10, 2) and (12, 2).
C20_Witness ==
    \E id \in InstIds :
        /\ ret[1] = "peek"
        /\ ret[2].vwap = Float(11)
        /\ trades[id] = <<<<Float(10), Float(2)>>, <<Float(12), Float(2)>>>>

\* register() waits for its subscription and the get() on the ticker's
\* queue times out in this step.
HandshakeTimesOut ==
    /\ pc = "subscribe"
    /\ tick_errors[loc.instrument] = << >>
    /\ RegisterTimeout

TradePricesOf(ts) == {ts[i][1] : i \in DOMAIN ts}

HighestOf(ps) == CHOOSE p \in ps : \A q \in ps : ~FLess(p, q)

LowestOf(ps) == CHOOSE p \in ps : \A q \in ps : ~FLess(q, p)

\* C21: the bar the timer takes for the bar handlers has as its high the
\* highest, and as its low the lowest, price of the trades added since the
\* bar before, and the price of the last trade when there was none.
C21_HighLowOfPeriod ==
    [][\A id \in InstIds :
           (id \in DOMAIN ticumulators /\ CallBarHandlers("time", 1, id))
           => LET bar == Peek(ticumulators[id])
                  ps == TradePricesOf(trades[id])
              IN  IF ps = {}
                  THEN bar.high = bar.last /\ bar.low = bar.last
                  ELSE bar.high = HighestOf(ps) /\ bar.low = LowestOf(ps)]_vars

----------------------------------------------------------------------------
(* Properties of the recurring task. *)

\* C22: while every invocation of the function has taken less than the
\* period, the k-th invocation (counted from 0) starts at t0 + k * Period,
\* t0 being the first scheduled time: the task sleeps only what remains of
\* the period.
C22_PhaseLocked ==
    (timer.pc = "func" /\ ~timer.slow)
        => timer.start = timer.t0 + timer.calls * Period

\* C26: after an invocation that overran the period the next one follows
\* with no sleep, and never do two consecutive cycles end without a sleep.
C26_NoCatchUpBurst ==
    [][TaskSleep => /\ timer.last > Period => now' = now
                    /\ timer'.burst < 2]_vars

\* C27: after stop() at most one further invocation of the function begins,
\* and the loop ends.
C27_StopEnds ==
    /\ [](timer.after_stop <= 1)
    /\ (timer.pc # "none" /\ ~timer.running) ~> (timer.pc = "done")

\* stop() came between the loop test and the call: one invocation began
\* after it, and the loop has ended.
C27_Witness == timer.pc = "done" /\ timer.after_stop = 1 /\ timer.calls > 1


----------------------------------------------------------------------------
(* Properties of the threads. *)

\* A step that writes the order map, the position map, an accumulator or the
\* instrument cache, or that creates a pending-request slot.  Taking an item
\* from a slot's queue is the hand-off the queue is for, and is no write.
SharedWritten ==
    \/ orders' # orders
    \/ positions' # positions
    \/ ticumulators' # ticumulators
    \/ Len(contract_details') # Len(contract_details)
    \/ DOMAIN tick_errors' # DOMAIN tick_errors
    \/ instruments' # instruments

\* C23: every write to the order map, the position map, the accumulators,
\* the pending-request slots and the instrument cache is made by a step of
\* the dispatch thread: no step of a caller's operation makes one.
C23_DispatchSoleWriter == [][SharedWritten => UNCHANGED callerVars]_vars


\* A call is blocked in a wait on the session.
Blocked == pc \in {"details", "subscribe", "positions", "open_orders"}

\* C24: a call blocked in instrument resolution, in the handshake of
\* register() or in reconcile() eventually returns or raises, whatever the
\* session delivers, and also when it delivers nothing.
C24_BlockingCallsEnd == Blocked ~> (pc = "idle")

\* reconcile() has returned although the end of the open orders never came.
C24_Witness == pc = "idle" /\ ret[1] = "reconcile" /\ ret[2] = FALSE


----------------------------------------------------------------------------
(* Properties of orders on a lost connection. *)

\* C25: order() called while connected is not True, or with a quantity of 0,
\* sends nothing, records no order, takes no order id and returns None;
\* cancel() called while connected is not True sends nothing.
C25_NotConnectedNoOrder ==
    [][/\ \A inst \in InstIds, q \in Quantities :
              (OrderBegin(inst, q, 0) /\ (connected # "True" \/ q = 0))
              => /\ sent' = << >>
                 /\ orders' = orders
                 /\ next_order_id' = next_order_id
                 /\ pc' = "idle"
                 /\ ret'[1] = "order"
                 /\ ret'[2] = None
       /\ \A id \in LedgerIds :
              (Cancel(id) /\ connected # "True") => sent' = << >>]_vars

\* order() for a quantity other than 0 has returned None on a connection
\* that is lost, with an order of before the loss on record.
C25_Witness ==
    /\ connected = "False"
    /\ pc = "idle"
    /\ ret[1] = "order"
    /\ ret[2] = None
    /\ orders # << >>


----------------------------------------------------------------------------
(* Properties of closed orders, of fills and of commission reports. *)

\* C28: an order that is not open is completely filled or cancelled: no
\* event closes an order that is neither.
C28_ClosedIsFilledOrCancelled ==
    \A id \in DOMAIN orders :
        ~orders[id].open => (Complete(orders[id]) \/ orders[id].cancelled)


\* C29: every step that merges a fill into an order (the notified cumulative
\* quantity exceeds the magnitude of filled) invokes the order handlers of
\* the order's instrument, each once.
C29_FillCallsHandler ==
    [][\A id \in DOMAIN orders :
           (/\ id \in DOMAIN orders'
            /\ Abs(orders'[id].filled) > Abs(orders[id].filled))
           => calls' = CallOrderHandlers(orders[id])]_vars


\* The commission a report adds to the order's, and the profit.
AddedCommission(c) == IF 0 <= c /\ c < 1000000 THEN c ELSE 0
AddedProfit(p) == IF 0 - 1000000 < p /\ p < 1000000 THEN p ELSE 0

\* C30: a commission report changes only the order its execution id was
\* recorded for by an execution-detail event, adding the commission when it
\* is in [0, 1,000,000) and the profit when it is in (-1,000,000,
\* 1,000,000) and nothing else; a report for an execution id that is not
\* recorded changes no order and invokes no handler.
C30_CommissionOfRecordedExecution ==
    [][\A e \in 1..(MaxExec + 1), c \in Commissions, p \in Profits :
           CommissionReport(CommissionReportMsg(e, c, p))
           => IF e \in DOMAIN executions /\ executions[e] \in DOMAIN orders
              THEN LET id == executions[e]
                   IN  /\ orders' = PutOrder(orders, id,
                              [orders[id] EXCEPT
                                   !.commission = @ + AddedCommission(c),
                                   !.profit = @ + AddedProfit(p)])
              ELSE orders' = orders /\ calls' = 0]_vars

\* An order has had a commission and a loss added by a report, with the
\* placeholder values of other reports left out.
C30_Witness ==
    \E id \in DOMAIN orders :
        /\ orders[id].commission = CRAZY_HIGH_COMMISSION - 1
        /\ orders[id].profit = 1 - CRAZY_HIGH_PROFIT

----------------------------------------------------------------------------
(* Properties of reconciliation, continued. *)

\* C31: after an open-order acknowledgement for an order id without a record
\* is dispatched, the order map has a record for that id.
C31_OpenOrderMaterialized ==
    [][\A id \in OrderIds, inst \in InstIds :
           OpenOrder(OpenOrderMsg(id, inst, "BUY", 1, 0, "Submitted", None))
           => id \in DOMAIN orders']_vars

\* The step sends the command named.
Sends(cmd) == \E i \in DOMAIN sent' : sent'[i].cmd = cmd

\* C32: reconcile() sends the positions request as its first command, the
\* open-orders request when it leaves the resolution phase with every
\* request id it read handled and the signal cleared, and the next-id
\* request as it returns; the phases follow one another in that order.
C32_ReconcileCommandOrder ==
    [][/\ Sends("reqPositions") <=> (pc # "positions" /\ pc' = "positions")
       /\ (pc # "positions" /\ pc' = "positions") => pc \in {"idle", "construct"}
       /\ (pc = "positions" /\ pc' # pc) => pc' \in {"details", "open_orders"}
       /\ (pc = "details" /\ pc' # pc /\ loc.from = "reconcile")
              => pc' = "open_orders"
       /\ Sends("reqAllOpenOrders") <=> (pc # "open_orders" /\ pc' = "open_orders")
       /\ (pc # "open_orders" /\ pc' = "open_orders")
              => /\ ~reconcile_open_orders_end'
                 /\ \/ pc = "positions" /\ RequestIds(loc.req_ids) = << >>
                    \/ pc = "details" /\ loc.todo = << >>
       /\ (pc = "open_orders" /\ pc' # pc) => pc' = "idle"
       /\ (pc = "open_orders" /\ pc' = "idle") <=> Sends("reqIds")]_vars

\* reconcile() asks for the open orders after it resolved the contract of a
\* position that was not in the cache.
C32_Witness ==
    /\ pc = "open_orders"
    /\ sent = <<Command("reqAllOpenOrders", 0)>>
    /\ instruments # CachedIds

\* C33: reconcile() reads its queue of request ids up to the sentinel of the
\* positions' end: once it has read the sentinel it takes nothing more from
\* the queue.
C33_DrainsToSentinel ==
    [][ReconcileGet => \A i \in DOMAIN loc.req_ids : loc.req_ids[i] # None]_vars

\* C34: the request id of every contract-details request is the index of the
\* slot made for it, the newest: ids ascend with the slots and no two
\* requests have the same id or slot.
C34_RequestIdIsNewSlot ==
    [][Sends("reqContractDetails")
           => /\ Len(contract_details') = Len(contract_details) + 1
              /\ sent'[1].id = Len(contract_details)]_vars

----------------------------------------------------------------------------
(* Properties of errors and of the connection. *)

\* C35: a get_instrument() that has read the captured error of a
\* contract-request error from its slot raises that error and puts no
\* instrument in the cache, whatever it read from the slot before it.
C35_CapturedErrorRaised ==
    [][(/\ ResolutionEnds
        /\ \E i \in DOMAIN loc.details : loc.details[i].kind = "error")
       => /\ DetailsRaises(loc.details) = "captured"
          /\ instruments' = instruments]_vars

\* C36: a disconnect code leaves connected False and raises the Disconnect
\* alert, and connected goes from False to True only in the step that
\* dispatches a reconnect code, the one that raises the Reconnect alert.
C36_ReconnectOnlyByCode ==
    [][/\ Error(ErrorMsg(1100, 0))
              => connected' = "False" /\ alerts' = <<"Disconnect">>
       /\ (connected = "False" /\ connected' = "True")
              => alerts' = <<"Reconnect">>]_vars

----------------------------------------------------------------------------
(* Properties of the accumulators and of the threads that use them. *)

\* C37: an instrument that has its accumulator keeps it: no register() for
\* the instrument puts another in its place, and none requests its market
\* data again.
C37_OneTicumulator ==
    [][\A id \in InstIds, bar_type \in {"time", "tick"} :
           (id \in DOMAIN ticumulators /\ RegisterOnBar(id, bar_type, 1))
           => /\ ticumulators'[id] = ticumulators[id]
              /\ ~Sends("reqMktData")]_vars

RECURSIVE BarsSumLast(_, _)
BarsSumLast(bars, ticker_id) ==
    IF bars = << >> THEN Float(0)
    ELSE FAdd(IF Head(bars).ticker_id = ticker_id
              THEN Head(bars).sum_last ELSE Float(0),
              BarsSumLast(Tail(bars), ticker_id))

RECURSIVE BarsSumVol(_, _)
BarsSumVol(bars, ticker_id) ==
    IF bars = << >> THEN Float(0)
    ELSE FAdd(IF Head(bars).ticker_id = ticker_id
              THEN Head(bars).sum_vol ELSE Float(0),
              BarsSumVol(Tail(bars), ticker_id))

\* C39: with bar() on the timer's thread and add() on the reader thread,
\* every trade's price * size and size are in the vwap of exactly one bar:
\* whenever the timer's thread is outside bar(), the sums behind the vwaps of
\* the bars emitted, together with the sums the accumulator holds for the
\* bar to come, are the sums over all the trades added, none missing and
\* none twice.
C39_EveryTradeInOneBar ==
    \A id \in InstIds :
        timer.pc = "idle"
            => /\ FAdd(BarsSumLast(timer.bars, id), ticumulators[id].sum_last)
                   = SumProducts(trades[id])
               /\ FAdd(BarsSumVol(timer.bars, id), ticumulators[id].sum_vol)
                   = SumSizes(trades[id])


\* x <= y on floats, false when either is NaN
FLessEq(x, y) == ~IsNaN(x) /\ ~IsNaN(y) /\ ~FLess(y, x)

\* low <= open <= high and low <= close <= high
Ordered(acc) ==
    /\ FLessEq(acc.low, acc.open)
    /\ FLessEq(acc.open, acc.high)
    /\ FLessEq(acc.low, acc.close)
    /\ FLessEq(acc.close, acc.high)

\* C40: once a first trade price has been added, after any sequence of add()
\* and bar() calls the accumulator has low <= open <= high and
\* low <= close <= high, and its close is the most recent trade price: an
\* add('last', value) that is accepted makes value the close, and no other
\* call changes the close.
C40_OhlcOrdered ==
    /\ [](\A id \in InstIds :
              ~IsNaN(ticumulators[id].last) => Ordered(ticumulators[id]))
    /\ [][\A id \in InstIds :
              /\ \A value \in TradePrices :
                     TicumulatorAdd(id, "last", value)
                         => ticumulators'[id].close = value
              /\ (\A value \in TradePrices : ~TicumulatorAdd(id, "last", value))
                     => ticumulators'[id].close = ticumulators[id].close]_vars

\* A bar was just taken of an accumulator that had seen trades at two
\* prices, and the accumulator starts the next bar at the last of them.
C40_Witness ==
    /\ ret[1] = "bar"
    /\ ret[3] = 1
    /\ FLess(ret[2].low, ret[2].high)
    /\ ticumulators[1].open = ticumulators[1].last
    /\ ticumulators[1].high = ticumulators[1].low

====
